---- MODULE Spec2Model ----
(***************************************************************************)
(* Tuple-level lock manager with wait-die (LockManager) and the commit /   *)
(* abort paths of TransactionManager that release a transaction's locks.   *)
(*                                                                         *)
(* One thread runs one transaction; the thread of transaction t has        *)
(* txn_id t.  Every critical section of the lock manager (mutex_ held) is  *)
(* one atomic action; the checks made before mutex_ is taken read only the *)
(* caller's own Transaction object and are folded into the same action.    *)
(* A cv->wait(lock, pred) releases mutex_ and blocks (pc = "wait"); a      *)
(* notify_all or a spurious wake-up makes the thread runnable              *)
(* (pc = "woken"), and its next step re-evaluates pred under mutex_.       *)
(* Transactions have empty write sets and ENABLE_LOGGING is off, as in     *)
(* lock_manager_test.cpp.                                                  *)
(***************************************************************************)
EXTENDS Integers, FiniteSets, Sequences, TLC

NumTxns == 3
NumRids == 2
MaxCalls == 5

\* log manager: calls made in a run, buffer capacity and record sizes, in
\* units of one smallest record (a header-only record has size 1)
MaxLogCalls == 4
LOG_BUFFER_SIZE == 2
RecSizes == 1 .. LOG_BUFFER_SIZE
\* a COMMIT or ABORT record is a header only; here it fills a buffer
HEADER_SIZE == LOG_BUFFER_SIZE
MaxCommitCalls == 3
NumCommitTxns == 2
NumVals == 3
NumNodes == 3
NumKeys == 5
NumHashVals == 2
BUCKET_SIZE == 2
MaxSplits == 4
\* B+ tree: keys and values of the calls, page capacities (the source derives
\* them from PAGE_SIZE) and the last page id the disk manager hands out
NumTreeKeys == 6
NumTreeVals == 2
LEAF_MAX_SIZE == 2
INTERNAL_MAX_SIZE == 3
MaxPageId == 8
MaxTreeCalls == 8
MaxDrainCalls == 12
\* log recovery: transactions and table pages of the log, tuple values, the
\* records the log holds at the crash and the redo passes run over it
NumRecTxns == 2
NumTablePages == 2
NumTuples == 2
MaxLogRecords == 4
MaxRedoPasses == 2
INVALID_LSN == -1
INVALID_PAGE_ID == -1
HEADER_PAGE_ID == 0

Txns == 0 .. (NumTxns - 1)
Rids == 1 .. NumRids

LockOps == {"LockShared", "LockExclusive", "LockUpgrade"}
NoCall == [op |-> "none", rid |-> 0]

VARIABLES
    strict_2PL,          \* LockManager::strict_2PL_
    lock_table,          \* LockManager::lock_table_ : rid -> GrantedTxns
    cv_table,            \* LockManager::cv_table_ : rids that have a cv
    state,               \* Transaction::state_ per transaction
    shared_lock_set,     \* Transaction::GetSharedLockSet()
    exclusive_lock_set,  \* Transaction::GetExclusiveLockSet()
    pc,                  \* where each thread is
    call,                \* the lock call a thread is blocked in
    pending,             \* lock_set still to release in Commit / Abort
    last,                \* the call that returned most recently
    unlocked,            \* has an Unlock of this transaction succeeded
    budget               \* calls the threads may still make

lockVars == <<strict_2PL, lock_table, cv_table, state, shared_lock_set,
              exclusive_lock_set, pc, call, pending, last, unlocked, budget>>

VARIABLES
    ENABLE_LOGGING,      \* the process-wide flag
    next_lsn_,           \* LogManager::next_lsn_
    persistent_lsn_,     \* LogManager::persistent_lsn_
    offset_,             \* LogManager::offset_
    buf,                 \* the two byte buffers, each byte holds its record's lsn
    log_buffer_,         \* which buffer log_buffer_ points to
    flush_buffer_,       \* which buffer flush_buffer_ points to
    flush_future_,       \* "invalid", or "unset" / "set" state of its promise
    latch_,              \* LogManager::latch_ owner, or "free"
    log_file,            \* bytes handed to DiskManager::WriteLog so far
    fpc,                 \* where the flush thread is
    f_last_lsn,          \* FlushLog local last_lsn
    f_flush_size,        \* FlushLog local flush_size
    lpc,                 \* where each thread is inside a log manager call
    fut,                 \* the copy of flush_future_ a thread holds
    rec,                 \* size of the record a thread appends
    clsn,                \* lsn of the COMMIT / ABORT record of a transaction
    mark,                \* largest lsn assigned when a thread's call began
    lsns,                \* sizes of the records in the order lsns were given
    lret                 \* the log manager call that returned most recently

logVars == <<ENABLE_LOGGING, next_lsn_, persistent_lsn_, offset_, buf,
             log_buffer_, flush_buffer_, flush_future_, latch_, log_file,
             fpc, f_last_lsn, f_flush_size, lpc, fut, rec, clsn, mark,
             lsns, lret>>

VARIABLES
    write_set            \* per transaction: the rids of its DELETE items

\* LRUReplacer<T>
LruVals == 1 .. NumVals
LruAddrs == 1 .. NumNodes

VARIABLES
    access_list,         \* std::list<T>: nodes [addr, val], front first
    value_map,           \* std::unordered_map<T, iterator>: value -> node address
    lru_crashed,         \* an erase through an iterator to freed memory
    lru_model,           \* the values by recency as the calls should leave them
    lru_last             \* the replacer call that returned most recently

lruVars == <<access_list, value_map, lru_crashed, lru_model, lru_last>>

\* ExtendibleHash<K, V>
HashKeys == 0 .. (NumKeys - 1)
HashVals == 1 .. NumHashVals

VARIABLES
    global_depth,        \* ExtendibleHash::global_depth
    directory,           \* slot index -> bucket (its id)
    buckets,             \* bucket id -> [local_depth, slots], slots of <<key, value>>
    hash_model,          \* the map the calls should leave: key -> value
    hash_last            \* the hash table call that returned most recently

hashVars == <<global_depth, directory, buckets, hash_model, hash_last>>

\* BPlusTree<KeyType, ValueType, KeyComparator>
TreeKeys == 1 .. NumTreeKeys
TreeVals == 1 .. NumTreeVals

VARIABLES
    root_page_id_,       \* BPlusTree::root_page_id_
    pages,               \* page id -> [page_type, parent_page_id_, array,
                         \*   next_page_id_], array of [first, second]
    next_page_id,        \* the page id the next NewPage returns
    tree_model,          \* the map the calls should leave: key -> value or 0
    pin_count            \* page id -> pin count of the page in the buffer pool

treeVars == <<root_page_id_, pages, next_page_id, tree_model, pin_count>>

\* LogRecovery, the log file and the table pages it works on.  A table page
\* holds one tuple slot, so a RID is named by its page id.
RecTxns == 0 .. (NumRecTxns - 1)
TablePageIds == 1 .. NumTablePages
Tuples == 1 .. NumTuples

VARIABLES
    disk_log,            \* the log file: one cell per size unit of a record
    run_txn,             \* before the crash: txn -> [status, prev_lsn, clean,
                         \*   rids], rids the pages it holds exclusively
    mem_pages,           \* before the crash: the table pages in the buffer pool
    table_pages,         \* table pages on disk and, in recovery, as fetched:
                         \*   page id -> [lsn, tuple, marked, next_page_id]
    new_pages,           \* pages the buffer pool allocated since the restart
    active_txn_,         \* LogRecovery::active_txn_
    lsn_mapping_,        \* LogRecovery::lsn_mapping_
    rec_offset_,         \* LogRecovery::offset_
    rec_buffer_,         \* LogRecovery::log_buffer_
    read_offset,         \* Redo local read_offset
    next_offset,         \* Undo local next_offset
    undo_left,           \* entries of active_txn_ the loop of Undo has not visited
    rpc,                 \* where the run is: logging, or inside Redo / Undo
    redone,              \* lsns of the records the current Redo processed, in order
    straddled,           \* the current Redo met a record cut by the buffer end
    passes,              \* calls of Redo that returned
    once                 \* table pages and new_pages when the first returned

recVars == <<disk_log, run_txn, mem_pages, table_pages, new_pages,
             active_txn_, lsn_mapping_, rec_offset_, rec_buffer_,
             read_offset, next_offset, undo_left, rpc, redone, straddled,
             passes, once>>

\* the containers outside the lock and log managers
dsVars == <<lruVars, hashVars, treeVars, recVars>>

\* everything the lock manager does not touch
nonLockVars == <<logVars, write_set, dsVars>>

vars == <<lockVars, logVars, write_set, dsVars>>

\* LRUReplacer::LRUReplacer
LruInit ==
    /\ access_list = << >>
    /\ value_map = << >>
    /\ lru_crashed = FALSE
    /\ lru_model = << >>
    /\ lru_last = [op |-> "none", value |-> 0, res |-> FALSE, seq |-> 0]

\* ExtendibleHash::ExtendibleHash: depth 0, one empty bucket of depth 0
HashInit ==
    /\ global_depth = 0
    /\ directory = [i \in {0} |-> 0]
    /\ buckets = [b \in {0} |-> [local_depth |-> 0, slots |-> << >>]]
    /\ hash_model = << >>
    /\ hash_last = [op |-> "none", key |-> 0, res |-> FALSE, value |-> 0,
                    seq |-> 0]

\* BPlusTree::BPlusTree with root_page_id = INVALID_PAGE_ID; the header page
\* is the only page allocated so far
TreeInit ==
    /\ root_page_id_ = INVALID_PAGE_ID
    /\ pages = << >>
    /\ next_page_id = HEADER_PAGE_ID + 1
    /\ tree_model = [k \in TreeKeys |-> 0]
    /\ pin_count = [p \in HEADER_PAGE_ID .. MaxPageId |-> 0]

\* a table page nothing was written to
EmptyTablePage ==
    [lsn |-> 0, tuple |-> 0, marked |-> FALSE,
     next_page_id |-> INVALID_PAGE_ID]

\* an empty log file, no transaction begun, LogRecovery just constructed
RecInit ==
    /\ disk_log = << >>
    /\ run_txn = [t \in RecTxns |->
                     [status |-> "none", prev_lsn |-> INVALID_LSN,
                      clean |-> TRUE, rids |-> {}]]
    /\ mem_pages = [p \in TablePageIds |-> EmptyTablePage]
    /\ table_pages = [p \in TablePageIds |-> EmptyTablePage]
    /\ new_pages = 0
    /\ active_txn_ = << >>
    /\ lsn_mapping_ = << >>
    /\ rec_offset_ = 0
    /\ rec_buffer_ = << >>
    /\ read_offset = 0
    /\ next_offset = 0
    /\ undo_left = {}
    /\ rpc = "logging"
    /\ redone = << >>
    /\ straddled = FALSE
    /\ passes = 0
    /\ once = [pages |-> table_pages, new |-> 0]

DsInit == LruInit /\ HashInit /\ TreeInit /\ RecInit

----------------------------------------------------------------------------
(* Helpers translated from the source *)

\* *granted_set_.begin() of a std::set<txn_id_t>
SetBegin(S) == CHOOSE x \in S : \A y \in S : x <= y

\* GrantedTxns(lockType, txn_id)
GrantedTxns(lockType, txn_id) ==
    [lockType_ |-> lockType, granted_set_ |-> {txn_id}]

\* LockManager::TxnStateValidForLock, the test
TxnStateValidForLock(t) == state[t] = "GROWING"

\* wait-die: txn_id >= *grantedTxns->granted_set_.begin()
Younger_flipped(txn_id, granted_set) == txn_id <= SetBegin(granted_set)
Younger_strict(txn_id, granted_set) == txn_id > SetBegin(granted_set)
Younger(txn_id, granted_set) == txn_id >= SetBegin(granted_set)

\* LockShared applies wait-die only to an EXCLUSIVE entry
SharedConflict_any(g) == TRUE
SharedConflict(g) == g.lockType_ = "EXCLUSIVE"

\* predicate of the wait in LockShared
SharedWaitPred(r) ==
    IF r \in DOMAIN lock_table
    THEN lock_table[r].lockType_ = "SHARED" ELSE TRUE

\* predicate of the wait in LockExclusive and LockUpgrade
ExclusiveWaitPred_true(r) == TRUE
ExclusiveWaitPred(r) == r \notin DOMAIN lock_table

\* lock_table_.emplace(rid, g): no effect when rid is present
Emplace(r, g) ==
    IF r \in DOMAIN lock_table THEN lock_table
    ELSE [x \in DOMAIN lock_table \cup {r} |->
             IF x = r THEN g ELSE lock_table[x]]

\* an erase that left the entry in the table with no holder
Erase_empty(r) == [lock_table EXCEPT ![r].granted_set_ = {}]

\* lock_table_.erase(rid)
Erase(r) == [x \in DOMAIN lock_table \ {r} |-> lock_table[x]]

\* threads that hold a copy of cv_table_[r] (inside a wait on r)
Waiters(r) == {u \in Txns : pc[u] \in {"wait", "woken"} /\ call[u].rid = r}

\* a call of t returns res
Returns(t, op, r, res) ==
    last' = [txn |-> t, op |-> op, rid |-> r, res |-> res,
             seq |-> 1 - last.seq]

\* a thread makes a call (the cap keeps the model finite and small)
BeginCall(t) ==
    /\ pc[t] = "idle"
    /\ lpc[t] = "idle"
    /\ budget > 0
    /\ budget' = budget - 1
    /\ UNCHANGED nonLockVars

\* set state ABORTED and return false, nothing else touched
AbortCall(t, op, r) ==
    /\ state' = [state EXCEPT ![t] = "ABORTED"]
    /\ Returns(t, op, r, FALSE)
    /\ UNCHANGED <<strict_2PL, lock_table, cv_table, shared_lock_set,
                   exclusive_lock_set, pc, call, pending, unlocked>>

\* cv->wait(lock, pred) with pred false: block
Block(t, op, r) ==
    /\ cv_table' = cv_table \cup {r}
    /\ pc' = [pc EXCEPT ![t] = "wait"]
    /\ call' = [call EXCEPT ![t] = [op |-> op, rid |-> r]]

----------------------------------------------------------------------------
\* the log manager after construction: no flush thread, logging off
LogFresh ==
    /\ next_lsn_ = 0
    /\ persistent_lsn_ = INVALID_LSN
    /\ offset_ = 0
    /\ buf = [b \in 0 .. 1 |-> [i \in 1 .. LOG_BUFFER_SIZE |-> INVALID_LSN]]
    /\ log_buffer_ = 0
    /\ flush_buffer_ = 1
    /\ flush_future_ = "invalid"
    /\ latch_ = "free"
    /\ log_file = << >>
    /\ f_last_lsn = INVALID_LSN
    /\ f_flush_size = 0
    /\ lpc = [t \in Txns |-> "idle"]
    /\ fut = [t \in Txns |-> "invalid"]
    /\ rec = [t \in Txns |-> 0]
    /\ clsn = [t \in Txns |-> INVALID_LSN]
    /\ mark = [t \in Txns |-> INVALID_LSN]
    /\ lsns = << >>
    /\ lret = [txn |-> 0, op |-> "none"]

\* no flush thread yet, logging off
LogInit ==
    /\ ENABLE_LOGGING = FALSE
    /\ fpc = "none"
    /\ LogFresh

Init ==
    /\ strict_2PL \in BOOLEAN
    /\ lock_table = << >>
    /\ cv_table = {}
    /\ state = [t \in Txns |-> "GROWING"]
    /\ shared_lock_set = [t \in Txns |-> {}]
    /\ exclusive_lock_set = [t \in Txns |-> {}]
    /\ pc = [t \in Txns |-> "idle"]
    /\ call = [t \in Txns |-> NoCall]
    /\ pending = [t \in Txns |-> {}]
    /\ last = [txn |-> 0, op |-> "none", rid |-> 0, res |-> TRUE, seq |-> 0]
    /\ unlocked = [t \in Txns |-> FALSE]
    /\ budget = MaxCalls
    /\ write_set = [t \in Txns |-> << >>]
    /\ DsInit
    /\ LogInit

----------------------------------------------------------------------------
(* LockManager::LockShared *)

\* lines 143-158: install a SHARED entry, or join the SHARED holders
SharedGrant(t, r) ==
    /\ IF r \in DOMAIN lock_table                 \* else assert(false)
       THEN lock_table[r].lockType_ = "SHARED" ELSE TRUE
    /\ lock_table' =
          IF r \notin DOMAIN lock_table
          THEN Emplace(r, GrantedTxns("SHARED", t))
          ELSE [lock_table EXCEPT ![r].granted_set_ = @ \cup {t}]
    /\ shared_lock_set' = [shared_lock_set EXCEPT ![t] = @ \cup {r}]
    /\ pc' = [pc EXCEPT ![t] = "idle"]
    /\ call' = [call EXCEPT ![t] = NoCall]
    /\ Returns(t, "LockShared", r, TRUE)
    /\ UNCHANGED <<strict_2PL, cv_table, state, exclusive_lock_set,
                   pending, unlocked>>

LockShared(t, r) ==
    /\ BeginCall(t)
    /\ IF ~TxnStateValidForLock(t)
       THEN AbortCall(t, "LockShared", r)
       ELSE IF r \in DOMAIN lock_table /\ SharedConflict(lock_table[r])
       THEN IF Younger(t, lock_table[r].granted_set_)
            THEN AbortCall(t, "LockShared", r)
            ELSE IF SharedWaitPred(r)
                 THEN SharedGrant(t, r)
                 ELSE /\ Block(t, "LockShared", r)
                      /\ UNCHANGED <<strict_2PL, lock_table, state,
                                     shared_lock_set, exclusive_lock_set,
                                     pending, last, unlocked>>
       ELSE SharedGrant(t, r)

\* the wait of LockShared re-evaluates its predicate after a wake-up
LockSharedWake(t) ==
    /\ UNCHANGED <<budget, nonLockVars>>
    /\ pc[t] = "woken"
    /\ call[t].op = "LockShared"
    /\ IF SharedWaitPred(call[t].rid)
       THEN SharedGrant(t, call[t].rid)
       ELSE /\ pc' = [pc EXCEPT ![t] = "wait"]
            /\ UNCHANGED <<strict_2PL, lock_table, cv_table, state,
                           shared_lock_set, exclusive_lock_set, call,
                           pending, last, unlocked>>

----------------------------------------------------------------------------
(* LockManager::LockExclusive and the tail shared with LockUpgrade *)

\* emplace an EXCLUSIVE entry, record it in the exclusive lock set, return true
ExclusiveGrant(t, op, r) ==
    /\ lock_table' = Emplace(r, GrantedTxns("EXCLUSIVE", t))
    /\ exclusive_lock_set' = [exclusive_lock_set EXCEPT ![t] = @ \cup {r}]
    /\ pc' = [pc EXCEPT ![t] = "idle"]
    /\ call' = [call EXCEPT ![t] = NoCall]
    /\ Returns(t, op, r, TRUE)

LockExclusive(t, r) ==
    /\ BeginCall(t)
    /\ IF ~TxnStateValidForLock(t)
       THEN AbortCall(t, "LockExclusive", r)
       ELSE IF r \notin DOMAIN lock_table
       THEN /\ ExclusiveGrant(t, "LockExclusive", r)
            /\ UNCHANGED <<strict_2PL, cv_table, state, shared_lock_set,
                           pending, unlocked>>
       ELSE IF Younger(t, lock_table[r].granted_set_)
       THEN AbortCall(t, "LockExclusive", r)
       ELSE IF ExclusiveWaitPred(r)
       THEN /\ ExclusiveGrant(t, "LockExclusive", r)
            /\ cv_table' = cv_table \cup {r}
            /\ UNCHANGED <<strict_2PL, state, shared_lock_set, pending,
                           unlocked>>
       ELSE /\ Block(t, "LockExclusive", r)
            /\ UNCHANGED <<strict_2PL, lock_table, state, shared_lock_set,
                           exclusive_lock_set, pending, last, unlocked>>

LockExclusiveWake(t) ==
    /\ UNCHANGED <<budget, nonLockVars>>
    /\ pc[t] = "woken"
    /\ call[t].op = "LockExclusive"
    /\ IF ExclusiveWaitPred(call[t].rid)
       THEN /\ ExclusiveGrant(t, "LockExclusive", call[t].rid)
            /\ UNCHANGED <<strict_2PL, cv_table, state, shared_lock_set,
                           pending, unlocked>>
       ELSE /\ pc' = [pc EXCEPT ![t] = "wait"]
            /\ UNCHANGED <<strict_2PL, lock_table, cv_table, state,
                           shared_lock_set, exclusive_lock_set, call,
                           pending, last, unlocked>>

----------------------------------------------------------------------------
(* LockManager::LockUpgrade *)

LockUpgrade(t, r) ==
    /\ BeginCall(t)
    /\ IF ~TxnStateValidForLock(t)
       THEN AbortCall(t, "LockUpgrade", r)
       ELSE IF r \notin DOMAIN lock_table
       THEN AbortCall(t, "LockUpgrade", r)
       ELSE IF \/ lock_table[r].lockType_ # "SHARED"
               \/ t \notin lock_table[r].granted_set_
       THEN AbortCall(t, "LockUpgrade", r)
       ELSE LET rest == lock_table[r].granted_set_ \ {t} IN
            /\ shared_lock_set' = [shared_lock_set EXCEPT ![t] = @ \ {r}]
            /\ IF rest = {}
               THEN /\ lock_table' =
                         [lock_table EXCEPT ![r] = GrantedTxns("EXCLUSIVE", t)]
                    /\ exclusive_lock_set' =
                         [exclusive_lock_set EXCEPT ![t] = @ \cup {r}]
                    /\ Returns(t, "LockUpgrade", r, TRUE)
                    /\ UNCHANGED <<strict_2PL, cv_table, state, pc, call,
                                   pending, unlocked>>
               ELSE /\ lock_table' =
                         [lock_table EXCEPT ![r].granted_set_ = rest]
                    /\ IF Younger(t, rest)
                       THEN /\ state' = [state EXCEPT ![t] = "ABORTED"]
                            /\ Returns(t, "LockUpgrade", r, FALSE)
                            /\ UNCHANGED <<strict_2PL, cv_table,
                                           exclusive_lock_set, pc, call,
                                           pending, unlocked>>
                       ELSE /\ Block(t, "LockUpgrade", r)
                            /\ UNCHANGED <<strict_2PL, state,
                                           exclusive_lock_set, pending,
                                           last, unlocked>>

LockUpgradeWake(t) ==
    /\ UNCHANGED <<budget, nonLockVars>>
    /\ pc[t] = "woken"
    /\ call[t].op = "LockUpgrade"
    /\ IF ExclusiveWaitPred(call[t].rid)
       THEN /\ ExclusiveGrant(t, "LockUpgrade", call[t].rid)
            /\ UNCHANGED <<strict_2PL, cv_table, state, shared_lock_set,
                           pending, unlocked>>
       ELSE /\ pc' = [pc EXCEPT ![t] = "wait"]
            /\ UNCHANGED <<strict_2PL, lock_table, cv_table, state,
                           shared_lock_set, exclusive_lock_set, call,
                           pending, last, unlocked>>

\* std::condition_variable::wait may wake without a notification
SpuriousWakeup(t) ==
    /\ UNCHANGED <<budget, nonLockVars>>
    /\ pc[t] = "wait"
    /\ pc' = [pc EXCEPT ![t] = "woken"]
    /\ UNCHANGED <<strict_2PL, lock_table, cv_table, state, shared_lock_set,
                   exclusive_lock_set, call, pending, last, unlocked>>

----------------------------------------------------------------------------
(* LockManager::Unlock *)

\* strict 2PL: unlocking before COMMITTED / ABORTED is a violation
StrictViolation_never(t) == FALSE
StrictViolation(t) ==
    strict_2PL /\ ~(state[t] = "COMMITTED" \/ state[t] = "ABORTED")

\* the early returns of Unlock; "ok" when the lock is released
UnlockCase(t, r) ==
    IF StrictViolation(t) THEN "violation"
    ELSE IF r \notin DOMAIN lock_table THEN "absent"
    ELSE IF t \notin lock_table[r].granted_set_ THEN "notgranted"
    ELSE "ok"

\* GROWING becomes SHRINKING under non-strict 2PL
UnlockState_keep(t) == state[t]
UnlockState(t) ==
    IF ~strict_2PL /\ state[t] = "GROWING" THEN "SHRINKING" ELSE state[t]

\* an Unlock that notified nobody
Notified_none(t, r) == {}

\* threads woken by cv_table_[rid]->notify_all() when t leaves r
Notified(t, r) ==
    IF /\ UnlockCase(t, r) = "ok"
       /\ lock_table[r].granted_set_ \ {t} = {}
       /\ r \in cv_table
    THEN {u \in Txns : pc[u] = "wait" /\ call[u].rid = r}
    ELSE {}

\* the body of Unlock, apart from the caller's own pc and the return value
UnlockBody(t, r) ==
    IF UnlockCase(t, r) # "ok"
    THEN /\ state' = [state EXCEPT ![t] = "ABORTED"]
         /\ UNCHANGED <<lock_table, cv_table, shared_lock_set,
                        exclusive_lock_set, unlocked>>
    ELSE LET g == lock_table[r]
             rest == g.granted_set_ \ {t}
         IN /\ state' = [state EXCEPT ![t] = UnlockState(t)]
            /\ IF g.lockType_ = "SHARED"
               THEN /\ shared_lock_set' =
                          [shared_lock_set EXCEPT ![t] = @ \ {r}]
                    /\ UNCHANGED exclusive_lock_set
               ELSE /\ exclusive_lock_set' =
                          [exclusive_lock_set EXCEPT ![t] = @ \ {r}]
                    /\ UNCHANGED shared_lock_set
            /\ IF rest = {}
               THEN /\ lock_table' = Erase(r)
                    /\ cv_table' = IF r \in cv_table /\ Waiters(r) = {}
                                   THEN cv_table \ {r} ELSE cv_table
               ELSE /\ lock_table' =
                          [lock_table EXCEPT ![r].granted_set_ = rest]
                    /\ UNCHANGED cv_table
            /\ unlocked' = [unlocked EXCEPT ![t] = TRUE]

Unlock(t, r) ==
    /\ BeginCall(t)
    /\ UnlockBody(t, r)
    /\ pc' = [u \in Txns |-> IF u \in Notified(t, r) THEN "woken" ELSE pc[u]]
    /\ Returns(t, "Unlock", r, UnlockCase(t, r) = "ok")
    /\ UNCHANGED <<strict_2PL, call, pending>>

----------------------------------------------------------------------------
(* TransactionManager::Commit and TransactionManager::Abort *)

\* lock_set: the union of the shared and the exclusive lock set
LockSet_sharedonly(t) == shared_lock_set[t]
LockSet(t) == shared_lock_set[t] \cup exclusive_lock_set[t]

\* Commit / Abort once the write set is drained: with ENABLE_LOGGING go on
\* to append the COMMIT / ABORT record (pc "commit_log" / "abort_log"), else
\* collect lock_set and release it, returning at once when it is empty
AfterDrain(t, op) ==
    /\ pending' = [pending EXCEPT ![t] = LockSet(t)]
    /\ IF ENABLE_LOGGING
       THEN /\ pc' = [pc EXCEPT ![t] = IF op = "Commit" THEN "commit_log"
                                       ELSE "abort_log"]
            /\ lpc' = [lpc EXCEPT ![t] = "append"]
            /\ rec' = [rec EXCEPT ![t] = HEADER_SIZE]
            /\ UNCHANGED last
       ELSE /\ IF LockSet(t) = {}
               THEN /\ Returns(t, op, 0, TRUE)
                    /\ pc' = [pc EXCEPT ![t] = "idle"]
               ELSE /\ pc' = [pc EXCEPT ![t] = IF op = "Commit" THEN "commit"
                                               ELSE "abort"]
                    /\ UNCHANGED last
            /\ UNCHANGED <<lpc, rec>>

\* SetState, then the write set: Commit applies its DELETE items one by one
\* (pc "commit_apply"); Abort rolls them back, which touches no lock
Terminate(t, op, st) ==
    /\ pc[t] = "idle"
    /\ lpc[t] = "idle"
    /\ budget > 0
    /\ budget' = budget - 1
    /\ state' = [state EXCEPT ![t] = st]
    /\ IF op = "Commit" /\ write_set[t] # << >>
       THEN /\ pc' = [pc EXCEPT ![t] = "commit_apply"]
            /\ UNCHANGED <<pending, last, lpc, rec, write_set>>
       ELSE /\ AfterDrain(t, op)
            /\ write_set' = [write_set EXCEPT ![t] = << >>]
    /\ UNCHANGED <<strict_2PL, lock_table, cv_table, shared_lock_set,
                   exclusive_lock_set, call, unlocked, dsVars>>
    /\ UNCHANGED <<ENABLE_LOGGING, next_lsn_, persistent_lsn_, offset_, buf,
                   log_buffer_, flush_buffer_, flush_future_, latch_,
                   log_file, fpc, f_last_lsn, f_flush_size, fut, clsn, mark,
                   lsns, lret>>

\* a transaction that holds r exclusively puts a DELETE item for r in its
\* write set
MarkDelete(t, r) ==
    /\ pc[t] = "idle"
    /\ lpc[t] = "idle"
    /\ state[t] = "GROWING"
    /\ r \in exclusive_lock_set[t]
    /\ \A i \in 1 .. Len(write_set[t]) : write_set[t][i] # r
    /\ write_set' = [write_set EXCEPT ![t] = Append(@, r)]
    /\ UNCHANGED <<lockVars, logVars, dsVars>>

\* table->ApplyDelete(item.rid_, txn) on write_set->back(), then pop_back:
\* "this also release the lock"
ApplyDelete(t) ==
    /\ pc[t] = "commit_apply"
    /\ write_set[t] # << >>
    /\ LET r == write_set[t][Len(write_set[t])]
       IN /\ UnlockBody(t, r)
          /\ pc' = [u \in Txns |->
                      IF u \in Notified(t, r) THEN "woken" ELSE pc[u]]
    /\ write_set' = [write_set EXCEPT ![t] = SubSeq(@, 1, Len(@) - 1)]
    /\ UNCHANGED <<strict_2PL, call, pending, last, budget, logVars, dsVars>>

\* the write set is empty: Commit goes on
CommitDrained(t) ==
    /\ pc[t] = "commit_apply"
    /\ write_set[t] = << >>
    /\ AfterDrain(t, "Commit")
    /\ UNCHANGED <<strict_2PL, lock_table, cv_table, state, shared_lock_set,
                   exclusive_lock_set, call, unlocked, budget, write_set,
                   dsVars>>
    /\ UNCHANGED <<ENABLE_LOGGING, next_lsn_, persistent_lsn_, offset_, buf,
                   log_buffer_, flush_buffer_, flush_future_, latch_,
                   log_file, fpc, f_last_lsn, f_flush_size, fut, clsn, mark,
                   lsns, lret>>

\* one iteration of "for (auto locked_rid : lock_set) Unlock(txn, locked_rid)"
Release(t, op) ==
    \E r \in pending[t] :
        /\ UnlockBody(t, r)
        /\ pending' = [pending EXCEPT ![t] = @ \ {r}]
        /\ pc' = [u \in Txns |->
                    IF u = t
                    THEN (IF pending[t] = {r} THEN "idle" ELSE pc[t])
                    ELSE IF u \in Notified(t, r) THEN "woken" ELSE pc[u]]
        /\ IF pending[t] = {r}
           THEN Returns(t, op, 0, TRUE)
           ELSE UNCHANGED last
        /\ UNCHANGED <<strict_2PL, call>>

Commit(t) == Terminate(t, "Commit", "COMMITTED")

CommitRelease(t) ==
    pc[t] = "commit" /\ Release(t, "Commit") /\ UNCHANGED <<budget, nonLockVars>>

Abort(t) == Terminate(t, "Abort", "ABORTED")

AbortRelease(t) ==
    pc[t] = "abort" /\ Release(t, "Abort") /\ UNCHANGED <<budget, nonLockVars>>

----------------------------------------------------------------------------
(* LogManager: RunFlushThread, FlushLog, SwapBuffer *)
(* The flush thread wakes from cv_.wait_for on a notification or on its   *)
(* timeout, so its wake-up is always possible and notify_one is not       *)
(* recorded.  latch_ is held across steps only by ForceLogFlushAndWait,   *)
(* which waits on the future without releasing it.                        *)

logLocals == <<lpc, fut, rec, clsn, mark>>
logBuffers == <<next_lsn_, offset_, buf, log_buffer_, flush_buffer_, lsns>>
flushLocals == <<f_last_lsn, f_flush_size>>

\* a thread begins a log manager call
BeginLogCall(t) ==
    /\ pc[t] = "idle"
    /\ lpc[t] = "idle"
    /\ budget > 0
    /\ budget' = budget - 1
    /\ UNCHANGED <<strict_2PL, lock_table, cv_table, state, shared_lock_set,
                   exclusive_lock_set, pc, call, pending, last, unlocked,
                   write_set, dsVars>>

\* a step inside a log manager call that leaves the lock manager alone
LogStep == UNCHANGED <<lockVars, write_set, dsVars>>

RunFlushThread ==
    /\ fpc = "none"
    /\ budget > 0
    /\ budget' = budget - 1
    /\ ENABLE_LOGGING' = TRUE
    /\ fpc' = "top"
    /\ UNCHANGED <<strict_2PL, lock_table, cv_table, state, shared_lock_set,
                   exclusive_lock_set, pc, call, pending, last, unlocked,
                   write_set, dsVars>>
    /\ UNCHANGED <<persistent_lsn_, flush_future_, latch_, log_file, lret>>
    /\ UNCHANGED <<logLocals, logBuffers, flushLocals>>

\* while (ENABLE_LOGGING)
FlushLoop ==
    /\ fpc = "top"
    /\ fpc' = IF ENABLE_LOGGING THEN "lock" ELSE "exited"
    /\ LogStep
    /\ UNCHANGED <<ENABLE_LOGGING, persistent_lsn_, flush_future_, latch_,
                   log_file, lret>>
    /\ UNCHANGED <<logLocals, logBuffers, flushLocals>>

\* lock(latch_); cv_.wait_for(lock, LOG_TIMEOUT) releases it again
FlushLock ==
    /\ fpc = "lock"
    /\ latch_ = "free"
    /\ fpc' = "waiting"
    /\ LogStep
    /\ UNCHANGED <<ENABLE_LOGGING, persistent_lsn_, flush_future_, latch_,
                   log_file, lret>>
    /\ UNCHANGED <<logLocals, logBuffers, flushLocals>>

\* wake with latch_: last_lsn, SwapBuffer, a fresh promise, unlock
FlushWake ==
    /\ fpc = "waiting"
    /\ latch_ = "free"
    /\ f_last_lsn' = next_lsn_ - 1
    /\ f_flush_size' = offset_
    /\ log_buffer_' = flush_buffer_
    /\ flush_buffer_' = log_buffer_
    /\ offset_' = 0
    /\ flush_future_' = "unset"
    /\ fpc' = "write"
    /\ LogStep
    /\ UNCHANGED <<ENABLE_LOGGING, persistent_lsn_, latch_, log_file, lret,
                   next_lsn_, buf, lsns>>
    /\ UNCHANGED logLocals

\* the bytes WriteLog(flush_buffer_, flush_size) appends to the log file
WriteData_whole(b, n) == buf[b]
WriteData(b, n) == SubSeq(buf[b], 1, n)

\* disk_manager_->WriteLog, latch_ not held
FlushWrite ==
    /\ fpc = "write"
    /\ log_file' = log_file \o WriteData(flush_buffer_, f_flush_size)
    /\ fpc' = "written"
    /\ LogStep
    /\ UNCHANGED <<ENABLE_LOGGING, persistent_lsn_, flush_future_, latch_,
                   lret>>
    /\ UNCHANGED <<logLocals, logBuffers, flushLocals>>

\* the value SetPersistentLSN gets: last_lsn as saved before the swap
FlushedLsn_now(last_lsn) == next_lsn_ - 1
FlushedLsn(last_lsn) == last_lsn

\* lock again; SetPersistentLSN(last_lsn); promise.set_value(); unlock
FlushDone ==
    /\ fpc = "written"
    /\ latch_ = "free"
    /\ persistent_lsn_' = FlushedLsn(f_last_lsn)
    /\ flush_future_' = "set"
    /\ fut' = [t \in Txns |-> IF fut[t] = "pending" THEN "ready" ELSE fut[t]]
    /\ fpc' = "top"
    /\ LogStep
    /\ UNCHANGED <<ENABLE_LOGGING, latch_, log_file, lret, lpc, rec, clsn,
                   mark>>
    /\ UNCHANGED <<logBuffers, flushLocals>>

\* std::shared_future<void> future = flush_future_
CopyFuture ==
    IF flush_future_ = "invalid" THEN "invalid"
    ELSE IF flush_future_ = "set" THEN "ready" ELSE "pending"

----------------------------------------------------------------------------
(* LogManager::AppendLogRecord *)

\* log_record.lsn_ = next_lsn_++ : the value next_lsn_ has afterwards
NextLsn_same(n) == n
NextLsn(n) == n + 1

\* memcpy of the record at offset_: every byte of it carries its lsn
PutRecord(bytes, off, size, lsn) ==
    [i \in 1 .. LOG_BUFFER_SIZE |->
        IF off < i /\ i <= off + size THEN lsn ELSE bytes[i]]

AppendLogRecord(t, size) ==
    /\ BeginLogCall(t)
    /\ lpc' = [lpc EXCEPT ![t] = "append"]
    /\ rec' = [rec EXCEPT ![t] = size]
    /\ UNCHANGED <<ENABLE_LOGGING, persistent_lsn_, flush_future_, latch_,
                   log_file, fpc, lret, fut, clsn, mark>>
    /\ UNCHANGED <<logBuffers, flushLocals>>

\* with latch_: the record fits and is appended, or the thread unlocks and
\* goes for the future
AppendTry(t) ==
    /\ lpc[t] = "append"
    /\ latch_ = "free"
    /\ IF offset_ + rec[t] > LOG_BUFFER_SIZE
       THEN /\ lpc' = [lpc EXCEPT ![t] = "app_future"]
            /\ UNCHANGED <<logBuffers, clsn, lret>>
       ELSE /\ next_lsn_' = NextLsn(next_lsn_)
            /\ buf' = [buf EXCEPT ![log_buffer_] =
                          PutRecord(@, offset_, rec[t], next_lsn_)]
            /\ offset_' = offset_ + rec[t]
            /\ lsns' = Append(lsns, [lsn |-> next_lsn_, size |-> rec[t]])
            /\ UNCHANGED <<log_buffer_, flush_buffer_>>
            /\ IF pc[t] \in {"commit_log", "abort_log"}
               THEN /\ clsn' = [clsn EXCEPT ![t] = next_lsn_]
                    /\ lpc' = [lpc EXCEPT ![t] = "commit_check"]
                    /\ UNCHANGED lret
               ELSE /\ lpc' = [lpc EXCEPT ![t] = "idle"]
                    /\ lret' = [txn |-> t, op |-> "Append"]
                    /\ UNCHANGED clsn
    /\ LogStep
    /\ UNCHANGED <<ENABLE_LOGGING, persistent_lsn_, flush_future_, latch_,
                   log_file, fpc, fut, rec, mark>>
    /\ UNCHANGED flushLocals

\* future = flush_future_, read without latch_
AppendFuture(t) ==
    /\ lpc[t] = "app_future"
    /\ fut' = [fut EXCEPT ![t] = CopyFuture]
    /\ lpc' = [lpc EXCEPT ![t] = IF flush_future_ = "invalid" THEN "append"
                                 ELSE "app_wait"]
    /\ LogStep
    /\ UNCHANGED <<ENABLE_LOGGING, persistent_lsn_, flush_future_, latch_,
                   log_file, fpc, lret, rec, clsn, mark>>
    /\ UNCHANGED <<logBuffers, flushLocals>>

\* future.wait() returns
AppendWait(t) ==
    /\ lpc[t] = "app_wait"
    /\ fut[t] = "ready"
    /\ lpc' = [lpc EXCEPT ![t] = "append"]
    /\ LogStep
    /\ UNCHANGED <<ENABLE_LOGGING, persistent_lsn_, flush_future_, latch_,
                   log_file, fpc, lret, fut, rec, clsn, mark>>
    /\ UNCHANGED <<logBuffers, flushLocals>>

----------------------------------------------------------------------------
(* LogManager::ForceLogFlushAndWait *)

ForceLogFlushAndWait(t) ==
    /\ BeginLogCall(t)
    /\ lpc' = [lpc EXCEPT ![t] = "force"]
    /\ mark' = [mark EXCEPT ![t] = next_lsn_ - 1]
    /\ UNCHANGED <<ENABLE_LOGGING, persistent_lsn_, flush_future_, latch_,
                   log_file, fpc, lret, fut, rec, clsn>>
    /\ UNCHANGED <<logBuffers, flushLocals>>

\* lock(latch_); notify_one; copy the future; return when it is invalid or
\* ready, else wait on it with latch_ held.  That wait can only end after
\* FlushDone, which needs latch_, so no step leaves "force_wait".
ForceLock(t) ==
    /\ lpc[t] = "force"
    /\ latch_ = "free"
    /\ fut' = [fut EXCEPT ![t] = CopyFuture]
    /\ IF flush_future_ = "unset"
       THEN /\ latch_' = "held"
            /\ lpc' = [lpc EXCEPT ![t] = "force_wait"]
            /\ UNCHANGED lret
       ELSE /\ lpc' = [lpc EXCEPT ![t] = "idle"]
            /\ lret' = [txn |-> t, op |-> "Force"]
            /\ UNCHANGED latch_
    /\ LogStep
    /\ UNCHANGED <<ENABLE_LOGGING, persistent_lsn_, flush_future_, log_file,
                   fpc, rec, clsn, mark>>
    /\ UNCHANGED <<logBuffers, flushLocals>>

----------------------------------------------------------------------------
(* LogManager::StopFlushThread *)

StopFlushThread(t) ==
    /\ BeginLogCall(t)
    /\ ENABLE_LOGGING' = FALSE
    /\ lpc' = [lpc EXCEPT ![t] = "stop_notify"]
    /\ mark' = [mark EXCEPT ![t] = next_lsn_ - 1]
    /\ UNCHANGED <<persistent_lsn_, flush_future_, latch_, log_file, fpc,
                   lret, fut, rec, clsn>>
    /\ UNCHANGED <<logBuffers, flushLocals>>

\* lock(latch_); cv_.notify_one(); unlock
StopNotify(t) ==
    /\ lpc[t] = "stop_notify"
    /\ latch_ = "free"
    /\ lpc' = [lpc EXCEPT ![t] = "join"]
    /\ LogStep
    /\ UNCHANGED <<ENABLE_LOGGING, persistent_lsn_, flush_future_, latch_,
                   log_file, fpc, lret, fut, rec, clsn, mark>>
    /\ UNCHANGED <<logBuffers, flushLocals>>

\* flush_thread_->join() when there is a thread; flush_thread_ = nullptr
StopJoin(t) ==
    /\ lpc[t] = "join"
    /\ fpc \in {"none", "exited"}
    /\ fpc' = "none"
    /\ lpc' = [lpc EXCEPT ![t] = "idle"]
    /\ lret' = [txn |-> t, op |-> "Stop"]
    /\ LogStep
    /\ UNCHANGED <<ENABLE_LOGGING, persistent_lsn_, flush_future_, latch_,
                   log_file, fut, rec, clsn, mark>>
    /\ UNCHANGED <<logBuffers, flushLocals>>

----------------------------------------------------------------------------
(* TransactionManager::Commit / Abort with ENABLE_LOGGING: the force loop *)

\* while (lsn > log_manager_->GetPersistentLSN())
MustWaitForFlush(lsn) == lsn > persistent_lsn_

\* the loop test; when it fails the locks are collected and released
CommitCheck(t) ==
    /\ lpc[t] = "commit_check"
    /\ IF MustWaitForFlush(clsn[t])
       THEN /\ lpc' = [lpc EXCEPT ![t] = "wff_future"]
            /\ UNCHANGED <<pc, last>>
       ELSE /\ lpc' = [lpc EXCEPT ![t] = "idle"]
            /\ IF pending[t] = {}
               THEN /\ pc' = [pc EXCEPT ![t] = "idle"]
                    /\ Returns(t, IF pc[t] = "commit_log" THEN "Commit"
                                  ELSE "Abort", 0, TRUE)
               ELSE /\ pc' = [pc EXCEPT ![t] = IF pc[t] = "commit_log"
                                               THEN "commit" ELSE "abort"]
                    /\ UNCHANGED last
    /\ UNCHANGED <<strict_2PL, lock_table, cv_table, state, shared_lock_set,
                   exclusive_lock_set, call, pending, unlocked, budget,
                   write_set, dsVars>>
    /\ UNCHANGED <<ENABLE_LOGGING, persistent_lsn_, flush_future_, latch_,
                   log_file, fpc, lret, fut, rec, clsn, mark>>
    /\ UNCHANGED <<logBuffers, flushLocals>>

\* LogManager::WaitForLogFlush: copy the future without latch_
WaitForLogFlush(t) ==
    /\ lpc[t] = "wff_future"
    /\ fut' = [fut EXCEPT ![t] = CopyFuture]
    /\ lpc' = [lpc EXCEPT ![t] = IF flush_future_ = "unset" THEN "wff_wait"
                                 ELSE "commit_check"]
    /\ LogStep
    /\ UNCHANGED <<ENABLE_LOGGING, persistent_lsn_, flush_future_, latch_,
                   log_file, fpc, lret, rec, clsn, mark>>
    /\ UNCHANGED <<logBuffers, flushLocals>>

\* LogManager::WaitForLogFlush: future.wait() returns
WaitForLogFlushDone(t) ==
    /\ lpc[t] = "wff_wait"
    /\ fut[t] = "ready"
    /\ lpc' = [lpc EXCEPT ![t] = "commit_check"]
    /\ LogStep
    /\ UNCHANGED <<ENABLE_LOGGING, persistent_lsn_, flush_future_, latch_,
                   log_file, fpc, lret, fut, rec, clsn, mark>>
    /\ UNCHANGED <<logBuffers, flushLocals>>

----------------------------------------------------------------------------
Next ==
    \/ \E t \in Txns, r \in Rids : LockShared(t, r)
    \/ \E t \in Txns : LockSharedWake(t)
    \/ \E t \in Txns, r \in Rids : LockExclusive(t, r)
    \/ \E t \in Txns : LockExclusiveWake(t)
    \/ \E t \in Txns, r \in Rids : LockUpgrade(t, r)
    \/ \E t \in Txns : LockUpgradeWake(t)
    \/ \E t \in Txns : SpuriousWakeup(t)
    \/ \E t \in Txns, r \in Rids : Unlock(t, r)
    \/ \E t \in Txns : Commit(t)
    \/ \E t \in Txns : CommitRelease(t)
    \/ \E t \in Txns : Abort(t)
    \/ \E t \in Txns : AbortRelease(t)

Spec == Init /\ [][Next]_vars

----------------------------------------------------------------------------
(* The log manager on its own: threads that append, force and stop, and    *)
(* the flush thread.  The lock manager is idle.                            *)

LockIdle ==
    /\ lock_table = << >>
    /\ cv_table = {}
    /\ state = [t \in Txns |-> "GROWING"]
    /\ shared_lock_set = [t \in Txns |-> {}]
    /\ exclusive_lock_set = [t \in Txns |-> {}]
    /\ pc = [t \in Txns |-> "idle"]
    /\ call = [t \in Txns |-> NoCall]
    /\ pending = [t \in Txns |-> {}]
    /\ last = [txn |-> 0, op |-> "none", rid |-> 0, res |-> TRUE, seq |-> 0]
    /\ unlocked = [t \in Txns |-> FALSE]
    /\ write_set = [t \in Txns |-> << >>]
    /\ DsInit

InitLog ==
    /\ strict_2PL = FALSE
    /\ LockIdle
    /\ budget = MaxLogCalls
    /\ LogInit

NextLog ==
    \/ RunFlushThread
    \/ FlushLoop
    \/ FlushLock
    \/ FlushWake
    \/ FlushWrite
    \/ FlushDone
    \/ \E t \in Txns, size \in RecSizes : AppendLogRecord(t, size)
    \/ \E t \in Txns : AppendTry(t)
    \/ \E t \in Txns : AppendFuture(t)
    \/ \E t \in Txns : AppendWait(t)
    \/ \E t \in Txns : ForceLogFlushAndWait(t)
    \/ \E t \in Txns : ForceLock(t)
    \/ \E t \in Txns : StopFlushThread(t)
    \/ \E t \in Txns : StopNotify(t)
    \/ \E t \in Txns : StopJoin(t)

SpecLog == InitLog /\ [][NextLog]_vars

----------------------------------------------------------------------------
(* Transactions that take exclusive locks, delete and commit while the      *)
(* flush thread runs and logging is on                                     *)

InitCommit ==
    /\ strict_2PL \in BOOLEAN
    /\ LockIdle
    /\ budget = MaxCommitCalls
    /\ ENABLE_LOGGING = TRUE
    /\ fpc = "top"
    /\ LogFresh

\* the transactions that run in this specification
CommitTxns == {t \in Txns : t < NumCommitTxns}

NextCommit ==
    \/ FlushLoop
    \/ FlushLock
    \/ FlushWake
    \/ FlushWrite
    \/ FlushDone
    \/ \E t \in CommitTxns, r \in Rids : LockExclusive(t, r)
    \/ \E t \in CommitTxns : LockExclusiveWake(t)
    \/ \E t \in CommitTxns, r \in Rids : MarkDelete(t, r)
    \/ \E t \in CommitTxns : Commit(t)
    \/ \E t \in CommitTxns : ApplyDelete(t)
    \/ \E t \in CommitTxns : CommitDrained(t)
    \/ \E t \in CommitTxns : AppendTry(t)
    \/ \E t \in CommitTxns : AppendFuture(t)
    \/ \E t \in CommitTxns : AppendWait(t)
    \/ \E t \in CommitTxns : CommitCheck(t)
    \/ \E t \in CommitTxns : WaitForLogFlush(t)
    \/ \E t \in CommitTxns : WaitForLogFlushDone(t)
    \/ \E t \in CommitTxns : CommitRelease(t)

SpecCommit == InitCommit /\ [][NextCommit]_vars

TypeOK ==
    /\ strict_2PL \in BOOLEAN
    /\ DOMAIN lock_table \subseteq Rids
    /\ cv_table \subseteq Rids
    /\ \A t \in Txns :
          /\ state[t] \in {"GROWING", "SHRINKING", "COMMITTED", "ABORTED"}
          /\ pc[t] \in {"idle", "wait", "woken", "commit", "abort"}

----------------------------------------------------------------------------
(* Observations used by the properties *)

Holders(r) == IF r \in DOMAIN lock_table THEN lock_table[r].granted_set_ ELSE {}

HoldsShared(t, r) ==
    \/ r \in shared_lock_set[t]
    \/ (r \in DOMAIN lock_table /\ lock_table[r].lockType_ = "SHARED"
        /\ t \in lock_table[r].granted_set_)

HoldsExclusive(t, r) ==
    \/ r \in exclusive_lock_set[t]
    \/ (r \in DOMAIN lock_table /\ lock_table[r].lockType_ = "EXCLUSIVE"
        /\ t \in lock_table[r].granted_set_)

\* t sleeps in the wait of a lock call on r
BlockedOn(t, r) == pc[t] = "wait" /\ call[t].rid = r

\* in this step a call op(t, r) made from idle returns at once
ReturnsAtOnce(t, op, r) ==
    /\ pc[t] = "idle"
    /\ last' # last
    /\ last'.txn = t /\ last'.op = op /\ last'.rid = r

\* in this step a call op(t, r) made from idle blocks
BlocksNow(t, op, r) ==
    /\ pc[t] = "idle"
    /\ pc'[t] = "wait"
    /\ call'[t] = [op |-> op, rid |-> r]

\* in this step t makes the call op(t, r)
CallStep(t, op, r) == ReturnsAtOnce(t, op, r) \/ BlocksNow(t, op, r)

\* the lock table and t's lock sets are as before the step
NothingAcquired(t) ==
    /\ lock_table' = lock_table
    /\ shared_lock_set'[t] = shared_lock_set[t]
    /\ exclusive_lock_set'[t] = exclusive_lock_set[t]

----------------------------------------------------------------------------
\* C1: in every reachable state, no rid is held EXCLUSIVE by one transaction
\* while another transaction holds a shared or exclusive lock on the same rid.
C1_NoConflictingLocks ==
    \A r \in Rids : \A t \in Txns : \A u \in Txns \ {t} :
        HoldsExclusive(t, r) => ~HoldsShared(u, r) /\ ~HoldsExclusive(u, r)

\* an exclusive holder keeps another requester of the same rid waiting
C1_Witness ==
    \E r \in Rids : \E t \in Txns : \E u \in Txns \ {t} :
        HoldsExclusive(t, r) /\ BlockedOn(u, r)

----------------------------------------------------------------------------
\* a waits for b: a sleeps in a lock call on a rid that b holds
WaitsFor(a, b) ==
    /\ pc[a] = "wait"
    /\ b \in Holders(call[a].rid)

WaitSucc(S) == {b \in Txns : \E a \in S : WaitsFor(a, b)}

RECURSIVE WaitClosure(_, _)
WaitClosure(S, n) ==
    IF n = 0 THEN S ELSE WaitClosure(S \cup WaitSucc(S), n - 1)

\* C2: deadlock freedom: no reachable state has a cycle of transactions each
\* blocked inside a lock call on a rid held by the next one of the cycle.
C2_NoWaitCycle ==
    \A a \in Txns : a \notin WaitClosure(WaitSucc({a}), NumTxns)

----------------------------------------------------------------------------
\* C3: whenever a transaction is blocked in a lock call on a rid, its id is
\* strictly smaller than the id of every transaction holding that rid, also
\* after it was woken, re-checked its predicate and went back to waiting.
C3_WaitersOlderThanHolders ==
    \A t \in Txns : \A r \in Rids :
        BlockedOn(t, r) => \A h \in Holders(r) : t < h

----------------------------------------------------------------------------
----------------------------------------------------------------------------
\* C5: a GROWING transaction that calls LockShared on a rid held EXCLUSIVE,
\* or LockExclusive on a held rid, with an id >= the smallest holder id gets
\* false at once, becomes ABORTED, and the lock table and its lock sets stay
\* as they were; a requester whose id is below every holder's is not aborted.
C5_WaitDieAbort ==
    [][\A t \in Txns : \A r \in Rids :
          (state[t] = "GROWING" /\ r \in DOMAIN lock_table) =>
              /\ ( /\ CallStep(t, "LockExclusive", r)
                   /\ \E h \in lock_table[r].granted_set_ : t >= h )
                 => /\ ReturnsAtOnce(t, "LockExclusive", r)
                    /\ last'.res = FALSE
                    /\ pc'[t] = "idle"
                    /\ state'[t] = "ABORTED"
                    /\ NothingAcquired(t)
              /\ ( /\ CallStep(t, "LockShared", r)
                   /\ lock_table[r].lockType_ = "EXCLUSIVE"
                   /\ \E h \in lock_table[r].granted_set_ : t >= h )
                 => /\ ReturnsAtOnce(t, "LockShared", r)
                    /\ last'.res = FALSE
                    /\ pc'[t] = "idle"
                    /\ state'[t] = "ABORTED"
                    /\ NothingAcquired(t)
              /\ ( /\ \/ CallStep(t, "LockExclusive", r)
                      \/ CallStep(t, "LockShared", r)
                   /\ \A h \in lock_table[r].granted_set_ : t < h )
                 => state'[t] = "GROWING"]_vars

\* after two calls in all, a younger requester of a held rid was refused
C5_Witness ==
    /\ budget = MaxCalls - 2
    /\ last.op = "LockExclusive" /\ last.res = FALSE
    /\ state[last.txn] = "ABORTED"
    /\ Holders(last.rid) # {}
    /\ \A h \in Holders(last.rid) : h < last.txn
    /\ shared_lock_set[last.txn] = {} /\ exclusive_lock_set[last.txn] = {}

----------------------------------------------------------------------------
\* C6: LockShared by a GROWING transaction on a rid that is absent or held
\* SHARED returns true at once whatever the holders' ids, adds the
\* transaction to the rid's holders and the rid to its shared lock set, and
\* leaves it GROWING.
C6_SharedJoin ==
    [][\A t \in Txns : \A r \in Rids :
          ( /\ state[t] = "GROWING"
            /\ (r \in DOMAIN lock_table => lock_table[r].lockType_ = "SHARED")
            /\ CallStep(t, "LockShared", r) )
          => /\ ReturnsAtOnce(t, "LockShared", r)
             /\ last'.res = TRUE
             /\ pc'[t] = "idle"
             /\ r \in DOMAIN lock_table'
             /\ lock_table'[r].lockType_ = "SHARED"
             /\ lock_table'[r].granted_set_ = Holders(r) \cup {t}
             /\ shared_lock_set'[t] = shared_lock_set[t] \cup {r}
             /\ state'[t] = "GROWING"]_vars

\* every transaction holds the same rid shared; the youngest joined last
C6_Witness ==
    /\ last.op = "LockShared" /\ last.res = TRUE
    /\ last.txn = NumTxns - 1
    /\ last.rid \in DOMAIN lock_table
    /\ lock_table[last.rid].lockType_ = "SHARED"
    /\ lock_table[last.rid].granted_set_ = Txns
    /\ \A t \in Txns : last.rid \in shared_lock_set[t] /\ state[t] = "GROWING"

----------------------------------------------------------------------------
\* C7: two-phase rule: after a successful Unlock a transaction is never
\* granted a lock again: it is not GROWING, never blocks in a lock call, and
\* each later lock call returns false, sets it ABORTED and acquires nothing;
\* under non-strict 2PL the first successful Unlock of a GROWING transaction
\* makes it SHRINKING.
C7_TwoPhase ==
    [][\A t \in Txns :
          /\ unlocked[t] =>
                /\ state[t] # "GROWING"
                /\ pc'[t] \notin {"wait", "woken"}
                /\ (last' # last /\ last'.txn = t /\ last'.op \in LockOps)
                   => /\ last'.res = FALSE
                      /\ state'[t] = "ABORTED"
                      /\ NothingAcquired(t)
          /\ (~strict_2PL /\ state[t] = "GROWING"
              /\ ~unlocked[t] /\ unlocked'[t])
             => state'[t] = "SHRINKING"]_vars

\* under non-strict 2PL a transaction that unlocked was refused a lock
C7_Witness ==
    /\ ~strict_2PL
    /\ budget = MaxCalls - 3
    /\ unlocked[last.txn]
    /\ last.op \in LockOps /\ last.res = FALSE
    /\ state[last.txn] = "ABORTED"

----------------------------------------------------------------------------
\* C8: a transaction's state only moves forward: once COMMITTED or ABORTED
\* it never changes again, and a SHRINKING transaction never becomes GROWING.
C8_StateOnlyForward ==
    [][\A t \in Txns :
          /\ state[t] \in {"COMMITTED", "ABORTED"} => state'[t] = state[t]
          /\ state[t] = "SHRINKING" => state'[t] # "GROWING"]_vars

----------------------------------------------------------------------------
\* C9: when Commit (Abort) has returned, the transaction is COMMITTED
\* (ABORTED), its shared and exclusive lock sets are empty, it is in no
\* rid's holder set, and no rid is left in the lock table without a holder;
\* under strict and non-strict 2PL alike.
C9_TerminateReleasesAll ==
    \A t \in Txns :
        (last.txn = t /\ last.op \in {"Commit", "Abort"}) =>
            /\ pc[t] = "idle"
            /\ state[t] = (IF last.op = "Commit" THEN "COMMITTED"
                           ELSE "ABORTED")
            /\ shared_lock_set[t] = {}
            /\ exclusive_lock_set[t] = {}
            /\ \A r \in Rids : t \notin Holders(r)
            /\ \A r \in DOMAIN lock_table : lock_table[r].granted_set_ # {}

\* a transaction took a lock, then Commit released it
C9_Witness ==
    /\ budget = MaxCalls - 2
    /\ last.op = "Commit"
    /\ unlocked[last.txn]
    /\ state[last.txn] = "COMMITTED"
    /\ DOMAIN lock_table = {}

----------------------------------------------------------------------------
\* C10: under strict 2PL, Unlock by a transaction that is neither COMMITTED
\* nor ABORTED returns false, sets it ABORTED, and leaves the lock table and
\* its lock sets unchanged.
C10_StrictUnlockRefused ==
    [][\A t \in Txns : \A r \in Rids :
          ( /\ strict_2PL
            /\ state[t] \notin {"COMMITTED", "ABORTED"}
            /\ ReturnsAtOnce(t, "Unlock", r) )
          => /\ last'.res = FALSE
             /\ state'[t] = "ABORTED"
             /\ NothingAcquired(t)]_vars

\* strict 2PL: the holder's Unlock was refused and the lock is still held
C10_Witness ==
    /\ strict_2PL
    /\ budget = MaxCalls - 2
    /\ last.op = "Unlock" /\ last.res = FALSE
    /\ state[last.txn] = "ABORTED"
    /\ last.txn \in Holders(last.rid)
    /\ last.rid \in shared_lock_set[last.txn] \cup exclusive_lock_set[last.txn]

----------------------------------------------------------------------------
(* LRUReplacer.  A list node is its address and its value; value_map keeps  *)
(* an iterator, that is a node address, per value.  push_front takes any    *)
(* free address, also one that was just freed.  Erasing through an iterator *)
(* to a freed node is undefined and is taken as a crash; through one whose  *)
(* address another node now has, it unlinks that node.                      *)

\* the addresses of the nodes in access_list, and its values in order
LiveAddrs == {access_list[i].addr : i \in 1 .. Len(access_list)}
ListVals == [i \in 1 .. Len(access_list) |-> access_list[i].val]

\* access_list.erase(iterator)
ListErase(a) == SelectSeq(access_list, LAMBDA n : n.addr # a)

\* value_map.emplace(value, iterator): no effect when the key is there
MapEmplace(v, a) ==
    IF v \in DOMAIN value_map THEN value_map
    ELSE [x \in DOMAIN value_map \cup {v} |-> IF x = v THEN a ELSE value_map[x]]

\* value_map.erase(value)
MapErase(v) == [x \in DOMAIN value_map \ {v} |-> value_map[x]]

\* a sequence without the value v
RemoveVal(seq, v) == SelectSeq(seq, LAMBDA x : x # v)

LruReturns(op, v, res) ==
    lru_last' = [op |-> op, value |-> v, res |-> res, seq |-> 1 - lru_last.seq]

LruCrash ==
    /\ lru_crashed' = TRUE
    /\ UNCHANGED <<access_list, value_map>>

LruInsert(v) ==
    /\ ~lru_crashed
    /\ IF v \in DOMAIN value_map /\ value_map[v] \notin LiveAddrs
       THEN LruCrash
       ELSE LET erased == IF v \in DOMAIN value_map
                          THEN ListErase(value_map[v]) ELSE access_list
                used == {erased[i].addr : i \in 1 .. Len(erased)}
            IN /\ \E a \in LruAddrs \ used :
                     /\ access_list' = <<[addr |-> a, val |-> v]>> \o erased
                     /\ value_map' = MapEmplace(v, a)
               /\ UNCHANGED lru_crashed
    /\ lru_model' = <<v>> \o RemoveVal(lru_model, v)
    /\ LruReturns("Insert", v, TRUE)
    /\ UNCHANGED <<lockVars, logVars, write_set, hashVars, treeVars, recVars>>

LruVictim ==
    /\ ~lru_crashed
    /\ IF access_list = << >>
       THEN /\ LruReturns("Victim", 0, FALSE)
            /\ UNCHANGED <<access_list, value_map>>
       ELSE LET n == access_list[Len(access_list)]
            IN /\ access_list' = SubSeq(access_list, 1, Len(access_list) - 1)
               /\ value_map' = MapErase(n.val)
               /\ LruReturns("Victim", n.val, TRUE)
    /\ lru_model' = IF lru_model = << >> THEN << >>
                    ELSE SubSeq(lru_model, 1, Len(lru_model) - 1)
    /\ UNCHANGED lru_crashed
    /\ UNCHANGED <<lockVars, logVars, write_set, hashVars, treeVars, recVars>>

LruErase(v) ==
    /\ ~lru_crashed
    /\ IF v \notin DOMAIN value_map
       THEN /\ LruReturns("Erase", v, FALSE)
            /\ UNCHANGED <<access_list, value_map, lru_crashed>>
       ELSE /\ IF value_map[v] \notin LiveAddrs
               THEN LruCrash
               ELSE /\ access_list' = ListErase(value_map[v])
                    /\ value_map' = MapErase(v)
                    /\ UNCHANGED lru_crashed
            /\ LruReturns("Erase", v, TRUE)
    /\ lru_model' = RemoveVal(lru_model, v)
    /\ UNCHANGED <<lockVars, logVars, write_set, hashVars, treeVars, recVars>>

InitLRU ==
    /\ strict_2PL = FALSE
    /\ budget = 0
    /\ LockIdle
    /\ LogInit

NextLRU ==
    \/ \E v \in LruVals : LruInsert(v)
    \/ LruVictim
    \/ \E v \in LruVals : LruErase(v)

SpecLRU == InitLRU /\ [][NextLRU]_vars

----------------------------------------------------------------------------
(* ExtendibleHash.  A bucket is named by an id; a bucket no directory slot  *)
(* points to is freed (std::shared_ptr).                                    *)

\* std::hash<int>
HashKey(k) == k

\* hash & mask for a mask of one bit
BitSet(h, mask) == (h \div mask) % 2 = 1

\* hash & ((1 << global_depth) - 1)
GetBucketIndexIn(gd, k) == HashKey(k) % (2 ^ gd)
GetBucketIndex(k) == GetBucketIndexIn(global_depth, k)

\* where key k is in a bucket's slots, 0 when it is not
SlotOf(slots, k) ==
    IF \E i \in 1 .. Len(slots) : slots[i][1] = k
    THEN CHOOSE i \in 1 .. Len(slots) :
             /\ slots[i][1] = k
             /\ \A j \in 1 .. (i - 1) : slots[j][1] # k
    ELSE 0

\* std::make_shared<Bucket>: an id no bucket has
FreshId(used) ==
    CHOOSE n \in 0 .. Cardinality(used) :
        n \notin used /\ \A m \in 0 .. (n - 1) : m \in used

\* int mask = 1 << (local_depth - 1)
SplitMask_next(local_depth) == 2 ^ local_depth
SplitMask(local_depth) == 2 ^ (local_depth - 1)

\* directory[i] = (i & mask) ? bucket1 : bucket0
DirTarget_flipped(i, mask, bucket0, bucket1) ==
    IF BitSet(i, mask) THEN bucket0 ELSE bucket1
DirTarget(i, mask, bucket0, bucket1) ==
    IF BitSet(i, mask) THEN bucket1 ELSE bucket0

\* one round of the while loop of Insert on h = [gd, dir, bks]
SplitOnce(h, key) ==
    LET id == h.dir[GetBucketIndexIn(h.gd, key)]
        b == h.bks[id]
        grow == b.local_depth = h.gd
        gd1 == IF grow THEN h.gd + 1 ELSE h.gd
        dir1 == IF grow
                THEN [i \in 0 .. (2 ^ gd1 - 1) |-> h.dir[i % (2 ^ h.gd)]]
                ELSE h.dir
        local_depth == b.local_depth + 1
        mask == SplitMask(local_depth)
        bucket0 == FreshId(DOMAIN h.bks)
        bucket1 == FreshId(DOMAIN h.bks \cup {bucket0})
        slots0 == SelectSeq(b.slots, LAMBDA e : ~BitSet(HashKey(e[1]), mask))
        slots1 == SelectSeq(b.slots, LAMBDA e : BitSet(HashKey(e[1]), mask))
        first == HashKey(key) % mask
        dir2 == [i \in DOMAIN dir1 |->
                   IF i >= first /\ (i - first) % mask = 0
                   THEN DirTarget(i, mask, bucket0, bucket1)
                   ELSE dir1[i]]
        all == [x \in DOMAIN h.bks \cup {bucket0, bucket1} |->
                  IF x = bucket0
                  THEN [local_depth |-> local_depth, slots |-> slots0]
                  ELSE IF x = bucket1
                  THEN [local_depth |-> local_depth, slots |-> slots1]
                  ELSE h.bks[x]]
        live == {dir2[i] : i \in DOMAIN dir2}
    IN [gd |-> gd1, dir |-> dir2, bks |-> [x \in live |-> all[x]]]

RECURSIVE SplitLoop(_, _, _)
\* while (bucket->slots.size() >= bucket_size); gd = -1 when more than
\* MaxSplits rounds would be needed
SplitLoop(h, key, fuel) ==
    IF Len(h.bks[h.dir[GetBucketIndexIn(h.gd, key)]].slots) < BUCKET_SIZE
    THEN h
    ELSE IF fuel = 0 THEN [h EXCEPT !.gd = -1]
    ELSE SplitLoop(SplitOnce(h, key), key, fuel - 1)

\* what Find(key) returns on the table as it is
FindResult(k) ==
    LET slots == buckets[directory[GetBucketIndex(k)]].slots
        i == SlotOf(slots, k)
    IN IF i = 0 THEN [res |-> FALSE, value |-> 0]
       ELSE [res |-> TRUE, value |-> slots[i][2]]

HashReturns(op, k, res, v) ==
    hash_last' = [op |-> op, key |-> k, res |-> res, value |-> v,
                  seq |-> 1 - hash_last.seq]

HashFind(k) ==
    /\ HashReturns("Find", k, FindResult(k).res, FindResult(k).value)
    /\ UNCHANGED <<global_depth, directory, buckets, hash_model>>
    /\ UNCHANGED <<lockVars, logVars, write_set, lruVars, treeVars, recVars>>

HashRemove(k) ==
    LET id == directory[GetBucketIndex(k)]
        slots == buckets[id].slots
        i == SlotOf(slots, k)
    IN /\ IF i = 0
          THEN UNCHANGED buckets
          ELSE buckets' = [buckets EXCEPT ![id].slots =
                              SubSeq(slots, 1, i - 1)
                              \o SubSeq(slots, i + 1, Len(slots))]
       /\ HashReturns("Remove", k, i # 0, 0)
       /\ hash_model' = [x \in DOMAIN hash_model \ {k} |-> hash_model[x]]
       /\ UNCHANGED <<global_depth, directory>>
       /\ UNCHANGED <<lockVars, logVars, write_set, lruVars, treeVars, recVars>>

HashInsert(k, v) ==
    LET id == directory[GetBucketIndex(k)]
        i == SlotOf(buckets[id].slots, k)
    IN /\ IF i # 0
          THEN /\ buckets' = [buckets EXCEPT ![id].slots[i] = <<k, v>>]
               /\ UNCHANGED <<global_depth, directory>>
          ELSE LET h == SplitLoop([gd |-> global_depth, dir |-> directory,
                                   bks |-> buckets], k, MaxSplits)
                   target == h.dir[GetBucketIndexIn(h.gd, k)]
               IN /\ h.gd # -1
                  /\ global_depth' = h.gd
                  /\ directory' = h.dir
                  /\ buckets' = [h.bks EXCEPT ![target].slots =
                                    Append(@, <<k, v>>)]
       /\ HashReturns("Insert", k, TRUE, v)
       /\ hash_model' = [x \in DOMAIN hash_model \cup {k} |->
                            IF x = k THEN v ELSE hash_model[x]]
       /\ UNCHANGED <<lockVars, logVars, write_set, lruVars, treeVars, recVars>>

InitHash ==
    /\ strict_2PL = FALSE
    /\ budget = 0
    /\ LockIdle
    /\ LogInit

NextHash ==
    \/ \E k \in HashKeys, v \in HashVals : HashInsert(k, v)
    \/ \E k \in HashKeys : HashRemove(k)
    \/ \E k \in HashKeys : HashFind(k)

SpecHash == InitHash /\ [][NextHash]_vars

----------------------------------------------------------------------------
(* B+ tree.  A page is named by its page id and array[i] of the source is   *)
(* array[i + 1] here.  The tree is the only user of the buffer pool, which  *)
(* holds every page: NewPage hands out the next page id with a zeroed page  *)
(* and DeletePage drops the page.  The asserts of the source are compiled   *)
(* out.                                                                     *)

\* the tree as one value, for the operators that compute the effect of a call
Tree ==
    [root_page_id_ |-> root_page_id_, pages |-> pages,
     next_page_id |-> next_page_id]

\* the loops that shift array up by one from index and store item there
InsertAt(array, index, item) ==
    SubSeq(array, 1, index) \o <<item>> \o SubSeq(array, index + 1, Len(array))

\* the loops that shift array down by one onto index
RemoveAt(array, index) ==
    SubSeq(array, 1, index) \o SubSeq(array, index + 2, Len(array))

GetMaxSize(page) ==
    IF page.page_type = "LEAF_PAGE" THEN LEAF_MAX_SIZE ELSE INTERNAL_MAX_SIZE

GetMinSize(page) == (GetMaxSize(page) + 1) \div 2

IsRootPage(page) == page.parent_page_id_ = INVALID_PAGE_ID

IsEmpty(T) == T.root_page_id_ = INVALID_PAGE_ID

\* BufferPoolManager::NewPage followed by Init and the fill of the new page
NewPage(T, page) ==
    [T EXCEPT !.pages = (T.next_page_id :> page) @@ T.pages,
              !.next_page_id = @ + 1]

\* BufferPoolManager::DeletePage
DeletePage(ps, page_id) == [p \in (DOMAIN ps) \ {page_id} |-> ps[p]]

\* the children keep the parent they had
SetParentPageId_none(ps, children, page_id) == ps

\* child->SetParentPageId(GetPageId()) for every child in children
SetParentPageId(ps, children, page_id) ==
    [p \in DOMAIN ps |->
        IF p \in children THEN [ps[p] EXCEPT !.parent_page_id_ = page_id]
        ELSE ps[p]]

\* the children an array of an internal page lists
Children(array) == {array[i].second : i \in 1 .. Len(array)}

RECURSIVE KeyIndexLoop(_, _, _, _)
KeyIndexLoop(array, key, start, end) ==
    IF start < end
    THEN LET mid == start + (end - start) \div 2
         IN  IF key > array[mid + 1].first
             THEN KeyIndexLoop(array, key, mid + 1, end)
             ELSE KeyIndexLoop(array, key, start, mid)
    ELSE start

\* BPlusTreeLeafPage::KeyIndex
KeyIndex(array, key) == KeyIndexLoop(array, key, 0, Len(array))

\* index < GetSize() && !comparator(key, KeyAt(index))
KeyFound(array, key) ==
    LET index == KeyIndex(array, key)
    IN  index < Len(array) /\ array[index + 1].first = key

\* BPlusTreeLeafPage::Lookup: <<exists, value>>, value 0 when not stored
LeafLookup(array, key) ==
    IF KeyFound(array, key)
    THEN <<TRUE, array[KeyIndex(array, key) + 1].second>>
    ELSE <<FALSE, 0>>

\* BPlusTreeLeafPage::Insert
LeafInsert(array, key, value) ==
    IF KeyFound(array, key)
    THEN array
    ELSE InsertAt(array, KeyIndex(array, key),
                  [first |-> key, second |-> value])

\* BPlusTreeLeafPage::RemoveAndDeleteRecord
RemoveAndDeleteRecord(array, key) ==
    IF KeyFound(array, key)
    THEN RemoveAt(array, KeyIndex(array, key))
    ELSE array

RECURSIVE LookupLoop(_, _, _, _)
LookupLoop(array, key, start, end) ==
    IF start < end
    THEN LET mid == start + (end - start) \div 2
         IN  IF key < array[mid + 1].first
             THEN LookupLoop(array, key, start, mid)
             ELSE LookupLoop(array, key, mid + 1, end)
    ELSE start

\* BPlusTreeInternalPage::Lookup
InternalLookup(array, key) ==
    array[LookupLoop(array, key, 1, Len(array))].second

\* BPlusTreeInternalPage::ValueIndex
ValueIndex(array, value) ==
    IF \E i \in 1 .. Len(array) : array[i].second = value
    THEN (CHOOSE i \in 1 .. Len(array) :
            /\ array[i].second = value
            /\ \A j \in 1 .. (i - 1) : array[j].second # value) - 1
    ELSE -1

RECURSIVE FindLeafFrom(_, _, _)
FindLeafFrom(ps, page_id, key) ==
    IF ps[page_id].page_type = "LEAF_PAGE"
    THEN page_id
    ELSE FindLeafFrom(ps, InternalLookup(ps[page_id].array, key), key)

\* BPlusTree::FindLeafPage with leftMost = false
FindLeafPage(T, key) == FindLeafFrom(T.pages, T.root_page_id_, key)

\* BPlusTree::GetValue: <<return value, result[0]>>
GetValue(T, key) ==
    IF IsEmpty(T)
    THEN <<FALSE, 0>>
    ELSE LeafLookup(T.pages[FindLeafPage(T, key)].array, key)

\* BPlusTree::Split with MoveHalfTo and CopyHalfFrom of the page's type; the
\* new page has id T.next_page_id
Split(T, page_id) ==
    LET node == T.pages[page_id]
        new_page_id == T.next_page_id
        size == Len(node.array)
        half == GetMinSize(node)
    IN  IF node.page_type = "LEAF_PAGE"
        THEN LET T1 == NewPage(T,
                     [page_type |-> "LEAF_PAGE",
                      parent_page_id_ |-> node.parent_page_id_,
                      array |-> SubSeq(node.array, size - half + 1, size),
                      next_page_id_ |-> node.next_page_id_])
             IN  [T1 EXCEPT
                    !.pages[page_id].array = SubSeq(node.array, 1, size - half),
                    !.pages[page_id].next_page_id_ = new_page_id]
        ELSE LET moved == SubSeq(node.array, half + 1, size)
                 T1 == NewPage(T,
                     [page_type |-> "INTERNAL_PAGE",
                      parent_page_id_ |-> node.parent_page_id_,
                      array |-> moved,
                      next_page_id_ |-> INVALID_PAGE_ID])
             IN  [T1 EXCEPT
                    !.pages = SetParentPageId(
                        [T1.pages EXCEPT
                            ![page_id].array = SubSeq(node.array, 1, half)],
                        Children(moved), new_page_id)]

\* BPlusTree::InsertIntoParent with PopulateNewRoot and InsertNodeAfter; the
\* zeroed new root keeps key 0 in slot 0
RECURSIVE InsertIntoParent(_, _, _, _)
InsertIntoParent(T, old_node, key, new_node) ==
    LET parent_page_id == T.pages[old_node].parent_page_id_
    IN  IF parent_page_id = INVALID_PAGE_ID
        THEN LET new_page_id == T.next_page_id
                 T1 == NewPage(T,
                     [page_type |-> "INTERNAL_PAGE",
                      parent_page_id_ |-> INVALID_PAGE_ID,
                      array |-> << [first |-> 0, second |-> old_node],
                                   [first |-> key, second |-> new_node] >>,
                      next_page_id_ |-> INVALID_PAGE_ID])
             IN  [T1 EXCEPT
                    !.root_page_id_ = new_page_id,
                    !.pages = SetParentPageId(T1.pages, {old_node, new_node},
                                              new_page_id)]
        ELSE LET parent_node == T.pages[parent_page_id]
                 array == InsertAt(parent_node.array,
                                   ValueIndex(parent_node.array, old_node) + 1,
                                   [first |-> key, second |-> new_node])
                 T1 == [T EXCEPT !.pages[parent_page_id].array = array]
             IN  IF Len(array) > GetMaxSize(parent_node)
                 THEN LET next_node == T1.next_page_id
                          T2 == Split(T1, parent_page_id)
                      IN  InsertIntoParent(T2, parent_page_id,
                              T2.pages[next_node].array[1].first, next_node)
                 ELSE T1

\* BPlusTree::Insert with StartNewTree and InsertIntoLeaf: the tree it leaves
\* and the value it returns
Insert(T, key, value) ==
    IF IsEmpty(T)
    THEN [tree |-> [NewPage(T,
                        [page_type |-> "LEAF_PAGE",
                         parent_page_id_ |-> INVALID_PAGE_ID,
                         array |-> << [first |-> key, second |-> value] >>,
                         next_page_id_ |-> INVALID_PAGE_ID])
                    EXCEPT !.root_page_id_ = T.next_page_id],
          ret |-> TRUE]
    ELSE LET leaf_page == FindLeafPage(T, key)
             node == T.pages[leaf_page]
             array == LeafInsert(node.array, key, value)
             T1 == [T EXCEPT !.pages[leaf_page].array = array]
         IN  [tree |-> IF Len(array) > GetMaxSize(node)
                       THEN LET new_node == T1.next_page_id
                                T2 == Split(T1, leaf_page)
                            IN  InsertIntoParent(T2, leaf_page,
                                    T2.pages[new_node].array[1].first, new_node)
                       ELSE T1,
              ret |-> Len(array) # Len(node.array)]

\* BPlusTreeInternalPage::MoveLastToFrontOf fetches the page whose id is
\* parent_index and uses it as the parent.  When that page is an internal
\* page the slot read and written is its own; when it is a leaf or no page of
\* the tree the read and the write go through a pointer of the wrong type,
\* which is undefined: the key read is any key, and the write leaves the page
\* alone or changes one key or one value of a leaf.  A junk is one such
\* outcome.  A page that is no page of the tree holds what the disk held: the
\* page id in it is its own when the junk is of kind "none" and 0 otherwise.
NoJunk == [key |-> 0, kind |-> "none", slot |-> 1, data |-> 0]

Junks ==
    {[key |-> k, kind |-> "none", slot |-> 1, data |-> 0] :
        k \in 0 .. NumTreeKeys}
    \cup [key : 0 .. NumTreeKeys, kind : {"value"},
          slot : 1 .. LEAF_MAX_SIZE, data : 0 .. NumTreeVals]
    \cup [key : 0 .. NumTreeKeys, kind : {"key"},
          slot : 1 .. LEAF_MAX_SIZE, data : 0 .. NumTreeKeys]

\* the page with this id is not an internal page of the tree
IsForeign(ps, page_id) ==
    \/ page_id \notin DOMAIN ps
    \/ ps[page_id].page_type # "INTERNAL_PAGE"

\* parent->KeyAt(index) on the page fetched as the parent
FetchedKeyAt(ps, page_id, index, junk) ==
    IF IsForeign(ps, page_id) \/ index >= Len(ps[page_id].array)
    THEN junk.key
    ELSE ps[page_id].array[index + 1].first

\* parent->SetKeyAt(index, key) on the page fetched as the parent
FetchedSetKeyAt(ps, page_id, index, key, junk) ==
    IF page_id \notin DOMAIN ps
    THEN ps
    ELSE IF ps[page_id].page_type = "INTERNAL_PAGE"
    THEN IF index < Len(ps[page_id].array)
         THEN [ps EXCEPT ![page_id].array[index + 1].first = key]
         ELSE ps
    ELSE IF junk.kind = "none" \/ junk.slot > Len(ps[page_id].array)
    THEN ps
    ELSE IF junk.kind = "value"
    THEN [ps EXCEPT ![page_id].array[junk.slot].second = junk.data]
    ELSE [ps EXCEPT ![page_id].array[junk.slot].first = junk.data]

\* the page is emptied and its entries are not copied
MoveAllTo_lost(ps, node, recipient, index_in_parent) ==
    [ps EXCEPT ![node].array = << >>]

\* MoveAllTo and CopyAllFrom of the page's type
MoveAllTo(ps, node, recipient, index_in_parent) ==
    IF ps[node].page_type = "LEAF_PAGE"
    THEN [ps EXCEPT ![recipient].array = @ \o ps[node].array,
                    ![recipient].next_page_id_ = ps[node].next_page_id_,
                    ![node].array = << >>]
    ELSE LET parent == ps[ps[node].parent_page_id_]
             moved == IF ps[node].array = << >> THEN << >>
                      ELSE [ps[node].array EXCEPT
                              ![1].first = parent.array[index_in_parent + 1].first]
         IN  SetParentPageId(
                 [ps EXCEPT ![recipient].array = @ \o moved,
                            ![node].array = << >>],
                 Children(moved), recipient)

\* MoveFirstToEndOf and CopyLastFrom of the page's type; this is the sibling
MoveFirstToEndOf(ps, this, recipient, parent_index) ==
    LET parent_page_id == ps[this].parent_page_id_
        array == ps[this].array
    IN  IF ps[this].page_type = "LEAF_PAGE"
        THEN [ps EXCEPT
                ![recipient].array = Append(@, array[1]),
                ![this].array = Tail(array),
                ![parent_page_id].array[parent_index + 1].first =
                    Tail(array)[1].first]
        ELSE LET pair == [first |-> ps[parent_page_id].array[parent_index + 1].first,
                          second |-> array[1].second]
             IN  SetParentPageId(
                     [ps EXCEPT
                        ![recipient].array = Append(@, pair),
                        ![this].array = Tail(array),
                        ![parent_page_id].array[parent_index + 1].first =
                            Tail(array)[1].first],
                     {pair.second}, recipient)

\* BPlusTreeInternalPage::CopyFirstFrom
CopyFirstFrom(array, pair) ==
    IF array = << >>
    THEN << [first |-> 0, second |-> pair.second] >>
    ELSE << [first |-> array[1].first, second |-> pair.second],
            [first |-> pair.first, second |-> array[1].second] >>
         \o Tail(array)

\* MoveLastToFrontOf of the page's type; this is the sibling.  The leaf page
\* fetches GetParentPageId(), the internal page fetches parent_index and
\* stores the key of its last remaining slot.
MoveLastToFrontOf(ps, this, recipient, parent_index, junk) ==
    LET parent_page_id == ps[this].parent_page_id_
        array == ps[this].array
        size == Len(array)
    IN  IF ps[this].page_type = "LEAF_PAGE"
        THEN [ps EXCEPT
                ![recipient].array = <<array[size]>> \o @,
                ![this].array = SubSeq(array, 1, size - 1),
                ![parent_page_id].array[parent_index + 1].first =
                    array[size].first]
        ELSE LET pair == [first |-> FetchedKeyAt(ps, parent_index,
                                                 parent_index, junk),
                          second |-> array[size].second]
                 ps1 == SetParentPageId(
                     [ps EXCEPT
                        ![recipient].array = CopyFirstFrom(@, pair),
                        ![this].array = SubSeq(array, 1, size - 1)],
                     {pair.second}, recipient)
             IN  FetchedSetKeyAt(ps1, parent_index, parent_index,
                                 array[size - 1].first, junk)

\* BPlusTree::Redistribute: the pages it leaves and whether it went through
\* a page that is not an internal page
Redistribute(ps, neighbor_node, node, index, junk) ==
    IF index = 0
    THEN [pages |-> MoveFirstToEndOf(ps, neighbor_node, node, 1),
          foreign |-> FALSE]
    ELSE [pages |-> MoveLastToFrontOf(ps, neighbor_node, node, index, junk),
          foreign |-> /\ ps[neighbor_node].page_type = "INTERNAL_PAGE"
                      /\ IsForeign(ps, index)]

\* BPlusTree::AdjustRoot with RemoveAndReturnOnlyChild
AdjustRoot(T, old_root_node) ==
    LET node == T.pages[old_root_node]
    IN  IF node.page_type = "LEAF_PAGE" /\ Len(node.array) = 0
        THEN [tree |-> [T EXCEPT !.root_page_id_ = INVALID_PAGE_ID],
              ret |-> TRUE, foreign |-> FALSE]
        ELSE IF node.page_type # "LEAF_PAGE" /\ Len(node.array) = 1
        THEN LET new_root_pid == node.array[1].second
             IN  [tree |-> [T EXCEPT
                     !.root_page_id_ = new_root_pid,
                     !.pages = SetParentPageId(
                         [T.pages EXCEPT ![old_root_node].array = << >>],
                         {new_root_pid}, INVALID_PAGE_ID)],
                  ret |-> TRUE, foreign |-> FALSE]
        ELSE [tree |-> T, ret |-> FALSE, foreign |-> FALSE]

RECURSIVE CoalesceOrRedistribute(_, _, _)
RECURSIVE Coalesce(_, _, _, _, _, _)

\* BPlusTree::Coalesce: the swap for index 0 makes the right page the one
\* that is emptied
Coalesce(T, neighbor_node, node, parent, index, junk) ==
    LET from == IF index = 0 THEN neighbor_node ELSE node
        to == IF index = 0 THEN node ELSE neighbor_node
        idx == IF index = 0 THEN 1 ELSE index
        ps1 == MoveAllTo(T.pages, from, to, idx)
        ps2 == [ps1 EXCEPT ![parent].array = RemoveAt(@, idx)]
        T2 == [T EXCEPT !.pages = ps2]
    IN  IF Len(ps2[parent].array) < GetMinSize(ps2[parent])
        THEN CoalesceOrRedistribute(T2, parent, junk)
        ELSE [tree |-> T2, ret |-> FALSE, foreign |-> FALSE]

\* BPlusTree::CoalesceOrRedistribute: ret says the caller is to delete node
CoalesceOrRedistribute(T, node, junk) ==
    IF IsRootPage(T.pages[node])
    THEN AdjustRoot(T, node)
    ELSE LET parent_page_id == T.pages[node].parent_page_id_
             parent_node == T.pages[parent_page_id]
             node_index == ValueIndex(parent_node.array, node)
             sibling_index == IF node_index = 0 THEN 1 ELSE node_index - 1
             sibling_page_id == parent_node.array[sibling_index + 1].second
             sibling_node == T.pages[sibling_page_id]
             coalesce == Len(sibling_node.array) <= GetMinSize(sibling_node)
         IN  IF coalesce
             THEN LET r == Coalesce(T, sibling_page_id, node, parent_page_id,
                                    node_index, junk)
                      ps1 == IF node_index = 0
                             THEN DeletePage(r.tree.pages, sibling_page_id)
                             ELSE r.tree.pages
                      ps2 == IF r.ret THEN DeletePage(ps1, parent_page_id)
                             ELSE ps1
                  IN  [tree |-> [r.tree EXCEPT !.pages = ps2],
                       ret |-> node_index # 0, foreign |-> r.foreign]
             ELSE LET r == Redistribute(T.pages, sibling_page_id, node,
                                        node_index, junk)
                  IN  [tree |-> [T EXCEPT !.pages = r.pages],
                       ret |-> FALSE, foreign |-> r.foreign]

\* BPlusTree::Remove: the tree it leaves and whether it went through a page
\* that is not an internal page
Remove(T, key, junk) ==
    IF IsEmpty(T)
    THEN [tree |-> T, foreign |-> FALSE]
    ELSE LET leaf_page == FindLeafPage(T, key)
             node == T.pages[leaf_page]
             array == RemoveAndDeleteRecord(node.array, key)
             T1 == [T EXCEPT !.pages[leaf_page].array = array]
         IN  IF Len(array) # Len(node.array) /\ Len(array) < GetMinSize(node)
             THEN LET r == CoalesceOrRedistribute(T1, leaf_page, junk)
                  IN  [tree |-> IF r.ret
                                THEN [r.tree EXCEPT
                                        !.pages = DeletePage(@, leaf_page)]
                                ELSE r.tree,
                       foreign |-> r.foreign]
             ELSE [tree |-> T1, foreign |-> FALSE]

----------------------------------------------------------------------------
(* Pins.  Each operator below gives, for the operator of the tree it is     *)
(* named after, the calls of FetchPage or NewPage ("pin") and of UnpinPage  *)
(* ("unpin") that the source makes, in the order it makes them.             *)

Fetched(page_id) == << [op |-> "pin", page |-> page_id] >>

Unpinned(page_id) == << [op |-> "unpin", page |-> page_id] >>

\* BufferPoolManager::FetchPage, NewPage and UnpinPage on the pin counts: an
\* unpin of a page that is not pinned changes nothing
RECURSIVE PinCounts(_, _)
PinCounts(counts, events) ==
    IF events = << >>
    THEN counts
    ELSE LET e == Head(events)
         IN  PinCounts(
                 IF e.op = "pin"
                 THEN [counts EXCEPT ![e.page] = @ + 1]
                 ELSE IF counts[e.page] > 0
                 THEN [counts EXCEPT ![e.page] = @ - 1]
                 ELSE counts,
                 Tail(events))

\* the loops that fetch each child of array, set its parent and unpin it
RECURSIVE ChildPins(_)
ChildPins(array) ==
    IF array = << >>
    THEN << >>
    ELSE Fetched(array[1].second) \o Unpinned(array[1].second)
         \o ChildPins(Tail(array))

\* the loop of BPlusTree::FindLeafPage
RECURSIVE FindLeafPins(_, _, _)
FindLeafPins(ps, page_id, key) ==
    IF ps[page_id].page_type = "LEAF_PAGE"
    THEN << >>
    ELSE LET child == InternalLookup(ps[page_id].array, key)
         IN  Unpinned(page_id) \o Fetched(child)
             \o FindLeafPins(ps, child, key)

\* BPlusTree::FindLeafPage: the leaf it returns stays pinned
FindLeafPagePins(T, key) ==
    Fetched(T.root_page_id_) \o FindLeafPins(T.pages, T.root_page_id_, key)

\* BPlusTree::UpdateRootPageId
UpdateRootPageIdPins == Fetched(HEADER_PAGE_ID) \o Unpinned(HEADER_PAGE_ID)

\* BPlusTree::GetValue
GetValuePins(T, key) ==
    IF IsEmpty(T)
    THEN << >>
    ELSE FindLeafPagePins(T, key) \o Unpinned(FindLeafPage(T, key))

\* BPlusTree::Split: the new page stays pinned
SplitPins(T, page_id) ==
    LET node == T.pages[page_id]
    IN  Fetched(T.next_page_id)
        \o (IF node.page_type = "LEAF_PAGE"
            THEN << >>
            ELSE ChildPins(SubSeq(node.array, GetMinSize(node) + 1,
                                  Len(node.array))))

\* BPlusTree::InsertIntoParent
RECURSIVE InsertIntoParentPins(_, _, _, _)
InsertIntoParentPins(T, old_node, key, new_node) ==
    LET parent_page_id == T.pages[old_node].parent_page_id_
    IN  IF parent_page_id = INVALID_PAGE_ID
        THEN Fetched(T.next_page_id) \o UpdateRootPageIdPins
        ELSE LET parent_node == T.pages[parent_page_id]
                 array == InsertAt(parent_node.array,
                                   ValueIndex(parent_node.array, old_node) + 1,
                                   [first |-> key, second |-> new_node])
                 T1 == [T EXCEPT !.pages[parent_page_id].array = array]
                 next_node == T1.next_page_id
                 T2 == Split(T1, parent_page_id)
             IN  Fetched(parent_page_id)
                 \o (IF Len(array) > GetMaxSize(parent_node)
                     THEN SplitPins(T1, parent_page_id)
                          \o InsertIntoParentPins(T2, parent_page_id,
                                 T2.pages[next_node].array[1].first, next_node)
                          \o Unpinned(next_node)
                     ELSE << >>)
                 \o Unpinned(parent_page_id)

\* BPlusTree::Insert with StartNewTree and InsertIntoLeaf
InsertPins(T, key, value) ==
    IF IsEmpty(T)
    THEN Fetched(T.next_page_id) \o UpdateRootPageIdPins
         \o Unpinned(T.next_page_id)
    ELSE LET leaf_page == FindLeafPage(T, key)
             node == T.pages[leaf_page]
             array == LeafInsert(node.array, key, value)
             T1 == [T EXCEPT !.pages[leaf_page].array = array]
             new_node == T1.next_page_id
             T2 == Split(T1, leaf_page)
         IN  FindLeafPagePins(T, key)
             \o (IF Len(array) > GetMaxSize(node)
                 THEN SplitPins(T1, leaf_page)
                      \o InsertIntoParentPins(T2, leaf_page,
                             T2.pages[new_node].array[1].first, new_node)
                      \o Unpinned(new_node)
                 ELSE << >>)
             \o Unpinned(leaf_page)

\* MoveAllTo and CopyAllFrom of the page's type
MoveAllToPins(ps, node) ==
    IF ps[node].page_type = "LEAF_PAGE"
    THEN << >>
    ELSE Fetched(ps[node].parent_page_id_)
         \o Unpinned(ps[node].parent_page_id_)
         \o ChildPins(ps[node].array)

\* parent->GetPageId() of the page fetched as the parent
FetchedPageId(ps, page_id, junk) ==
    IF page_id \in DOMAIN ps \/ junk.kind = "none"
    THEN page_id
    ELSE HEADER_PAGE_ID

\* BPlusTree::Redistribute with MoveFirstToEndOf or MoveLastToFrontOf of the
\* page's type
RedistributePins(ps, neighbor_node, node, index, junk) ==
    LET this == ps[neighbor_node]
        parent_page_id == this.parent_page_id_
        moved == IF index = 0 THEN <<this.array[1]>>
                 ELSE <<this.array[Len(this.array)]>>
    IN  IF this.page_type = "LEAF_PAGE"
        THEN Fetched(parent_page_id) \o Unpinned(parent_page_id)
        ELSE IF index = 0
        THEN Fetched(parent_page_id) \o ChildPins(moved)
             \o Unpinned(parent_page_id)
        ELSE Fetched(index) \o ChildPins(moved)
             \o Unpinned(FetchedPageId(ps, index, junk))

\* BPlusTree::AdjustRoot
AdjustRootPins(T, old_root_node) ==
    LET node == T.pages[old_root_node]
    IN  IF node.page_type = "LEAF_PAGE" /\ Len(node.array) = 0
        THEN UpdateRootPageIdPins
        ELSE IF node.page_type # "LEAF_PAGE" /\ Len(node.array) = 1
        THEN Fetched(node.array[1].second) \o UpdateRootPageIdPins
             \o Unpinned(node.array[1].second)
        ELSE << >>

\* BPlusTree::CoalesceOrRedistribute with Coalesce
RECURSIVE CoalesceOrRedistributePins(_, _, _)
CoalesceOrRedistributePins(T, node, junk) ==
    IF IsRootPage(T.pages[node])
    THEN AdjustRootPins(T, node)
    ELSE LET parent_page_id == T.pages[node].parent_page_id_
             parent_node == T.pages[parent_page_id]
             node_index == ValueIndex(parent_node.array, node)
             sibling_index == IF node_index = 0 THEN 1 ELSE node_index - 1
             sibling_page_id == parent_node.array[sibling_index + 1].second
             sibling_node == T.pages[sibling_page_id]
             from == IF node_index = 0 THEN sibling_page_id ELSE node
             to == IF node_index = 0 THEN node ELSE sibling_page_id
             idx == IF node_index = 0 THEN 1 ELSE node_index
             ps1 == MoveAllTo(T.pages, from, to, idx)
             ps2 == [ps1 EXCEPT ![parent_page_id].array = RemoveAt(@, idx)]
         IN  Fetched(parent_page_id) \o Fetched(sibling_page_id)
             \o (IF Len(sibling_node.array) <= GetMinSize(sibling_node)
                 THEN MoveAllToPins(T.pages, from)
                      \o (IF Len(ps2[parent_page_id].array)
                                < GetMinSize(ps2[parent_page_id])
                          THEN CoalesceOrRedistributePins(
                                   [T EXCEPT !.pages = ps2],
                                   parent_page_id, junk)
                          ELSE << >>)
                 ELSE RedistributePins(T.pages, sibling_page_id, node,
                                       node_index, junk))
             \o Unpinned(sibling_page_id) \o Unpinned(parent_page_id)

\* BPlusTree::Remove
RemovePins(T, key, junk) ==
    IF IsEmpty(T)
    THEN << >>
    ELSE LET leaf_page == FindLeafPage(T, key)
             node == T.pages[leaf_page]
             array == RemoveAndDeleteRecord(node.array, key)
             T1 == [T EXCEPT !.pages[leaf_page].array = array]
         IN  FindLeafPagePins(T, key)
             \o (IF Len(array) # Len(node.array)
                    /\ Len(array) < GetMinSize(node)
                 THEN CoalesceOrRedistributePins(T1, leaf_page, junk)
                 ELSE << >>)
             \o Unpinned(leaf_page)

\* the map a call should leave
ModelInsert(m, key, value) ==
    IF m[key] = 0 THEN [m EXCEPT ![key] = value] ELSE m

\* a call that leaves tree T, should leave map model, and pinned and unpinned
\* the pages of events
TreeStep(T, model, events) ==
    /\ budget > 0
    /\ root_page_id_' = T.root_page_id_
    /\ pages' = T.pages
    /\ next_page_id' = T.next_page_id
    /\ tree_model' = model
    /\ pin_count' = PinCounts(pin_count, events)
    /\ budget' = budget - 1
    /\ UNCHANGED <<strict_2PL, lock_table, cv_table, state, shared_lock_set,
                   exclusive_lock_set, pc, call, pending, last, unlocked>>
    /\ UNCHANGED <<logVars, write_set, lruVars, hashVars, recVars>>

\* a call of Insert that the page ids left allow; it returns
\* Insert(Tree, key, value).ret
TreeInsert(key, value) ==
    LET r == Insert(Tree, key, value)
    IN  /\ budget > 0
        /\ r.tree.next_page_id <= MaxPageId + 1
        /\ TreeStep(r.tree, ModelInsert(tree_model, key, value),
                    InsertPins(Tree, key, value))

\* a call of Remove
TreeRemove(key) ==
    /\ budget > 0
    /\ \E junk \in IF Remove(Tree, key, NoJunk).foreign THEN Junks ELSE {NoJunk} :
          TreeStep(Remove(Tree, key, junk).tree,
                   [tree_model EXCEPT ![key] = 0],
                   RemovePins(Tree, key, junk))

\* a call of GetValue, which returns GetValue(Tree, key)
TreeGetValue(key) ==
    /\ key \in TreeKeys
    /\ TreeStep(Tree, tree_model, GetValuePins(Tree, key))

InitTree ==
    /\ strict_2PL = FALSE
    /\ budget = MaxTreeCalls
    /\ LockIdle
    /\ LogInit

NextTree ==
    \/ \E k \in TreeKeys, v \in TreeVals : TreeInsert(k, v)
    \/ \E k \in TreeKeys : TreeRemove(k)
    \/ \E k \in TreeKeys : TreeGetValue(k)

SpecTree == InitTree /\ [][NextTree]_vars

\* longer runs of Insert and Remove, with one value, in which every key
\* inserted can be removed again
InitDrain ==
    /\ strict_2PL = FALSE
    /\ budget = MaxDrainCalls
    /\ LockIdle
    /\ LogInit

NextDrain ==
    \/ \E k \in TreeKeys : TreeInsert(k, SetBegin(TreeVals))
    \/ \E k \in TreeKeys : TreeRemove(k)

SpecDrain == InitDrain /\ [][NextDrain]_vars

----------------------------------------------------------------------------
(* Log recovery.  Sizes and offsets count units of one record header: a    *)
(* BEGIN, COMMIT or ABORT record has size 1, a record with a payload has   *)
(* size 2, and LOG_BUFFER_SIZE units fill the buffer.                       *)

HeaderOnly == {"BEGIN", "COMMIT", "ABORT"}
TupleOps == {"INSERT", "UPDATE", "APPLYDELETE", "MARKDELETE", "ROLLBACKDELETE"}

\* bytes that hold no record: the zero fill past the end of the file, and,
\* read as a header, the payload of a record
ZeroCell ==
    [size |-> 0, lsn |-> 0, txn_id |-> 0, prev_lsn |-> 0, type |-> "INVALID",
     rid |-> 0, old |-> 0, new |-> 0]

\* the serialized record: the header, then for a record with a payload the
\* RID (for NEWPAGE the previous page id) and the tuples
Cells(lsn, txn_id, prev_lsn, type, rid, old, new) ==
    IF type \in HeaderOnly
    THEN <<[ZeroCell EXCEPT !.size = 1, !.lsn = lsn, !.txn_id = txn_id,
                            !.prev_lsn = prev_lsn, !.type = type]>>
    ELSE <<[ZeroCell EXCEPT !.size = 2, !.lsn = lsn, !.txn_id = txn_id,
                            !.prev_lsn = prev_lsn, !.type = type],
           [ZeroCell EXCEPT !.rid = rid, !.old = old, !.new = new]>>

\* the headers of the records of the log file, in file order
LogRecords == SelectSeq(disk_log, LAMBDA c : c.size > 0)

\* DiskManager::ReadLog(log_data, LOG_BUFFER_SIZE, offset): the bytes of the
\* file from offset on, zero filled past its end; false at or past the end
ReadLog(offset) ==
    [ok |-> offset < Len(disk_log),
     data |-> [i \in 1 .. LOG_BUFFER_SIZE |->
                  IF offset + i <= Len(disk_log) THEN disk_log[offset + i]
                  ELSE ZeroCell]]

\* LogRecovery::DeserializeLogRecord(data + offset, log_record) with offset_
\* = offset.  rid is the RID the switch assigns (insert_rid_, update_rid_ or
\* delete_rid_ by the type), new_tuple_ stands for insert_tuple_ too and
\* old_tuple_ for delete_tuple_
DeserializeLogRecord(data, offset) ==
    IF offset + 1 > LOG_BUFFER_SIZE
    THEN [ok |-> FALSE, cut |-> FALSE]
    ELSE LET h == data[offset + 1]
         IN  IF h.size <= 0 \/ offset + h.size > LOG_BUFFER_SIZE
             THEN [ok |-> FALSE, cut |-> h.size > 0]
             ELSE LET b == IF h.size > 1 THEN data[offset + 2] ELSE ZeroCell
                  IN  [ok |-> TRUE, cut |-> FALSE, size_ |-> h.size,
                       lsn_ |-> h.lsn, txn_id_ |-> h.txn_id,
                       prev_lsn_ |-> h.prev_lsn, log_record_type_ |-> h.type,
                       rid |-> b.rid, prev_page_id_ |-> b.rid,
                       old_tuple_ |-> b.old, new_tuple_ |-> b.new]

\* the table page calls of recovery; they are handed no log manager and no
\* lsn, so the lsn of the page stays
TablePageCall(page, op, tuple) ==
    CASE op = "InsertTuple" -> [page EXCEPT !.tuple = tuple, !.marked = FALSE]
      [] op = "UpdateTuple" -> [page EXCEPT !.tuple = tuple]
      [] op = "ApplyDelete" -> [page EXCEPT !.tuple = 0, !.marked = FALSE]
      [] op = "MarkDelete" -> [page EXCEPT !.marked = TRUE]
      [] op = "RollbackDelete" -> [page EXCEPT !.marked = FALSE]

\* the call Redo makes for a record, gated by the lsn of the page
RedoApply(page, record) ==
    LET t == record.log_record_type_
    IN  IF ~(record.lsn_ > page.lsn) THEN page
        ELSE CASE t = "INSERT" -> TablePageCall(page, "InsertTuple", record.new_tuple_)
               [] t = "UPDATE" -> TablePageCall(page, "UpdateTuple", record.new_tuple_)
               [] t = "APPLYDELETE" -> TablePageCall(page, "ApplyDelete", 0)
               [] t = "MARKDELETE" -> TablePageCall(page, "MarkDelete", 0)
               [] t = "ROLLBACKDELETE" -> TablePageCall(page, "RollbackDelete", 0)

\* the call Undo makes for a record
UndoApply(page, record) ==
    LET t == record.log_record_type_
    IN  CASE t = "INSERT" -> TablePageCall(page, "ApplyDelete", 0)
          [] t = "UPDATE" -> TablePageCall(page, "UpdateTuple", record.old_tuple_)
          [] t = "APPLYDELETE" -> TablePageCall(page, "InsertTuple", record.old_tuple_)
          [] t = "MARKDELETE" -> TablePageCall(page, "RollbackDelete", 0)
          [] t = "ROLLBACKDELETE" -> TablePageCall(page, "MarkDelete", 0)

\* Redo's bookkeeping, had it erased the transaction on COMMIT only
UpdateActiveTxn_commitonly(active, record) ==
    IF record.log_record_type_ = "COMMIT"
    THEN [t \in (DOMAIN active) \ {record.txn_id_} |-> active[t]]
    ELSE [t \in (DOMAIN active) \cup {record.txn_id_} |->
             IF t = record.txn_id_ THEN record.lsn_ ELSE active[t]]

\* Redo's bookkeeping of active_txn_ for a record
UpdateActiveTxn(active, record) ==
    IF record.log_record_type_ \in {"COMMIT", "ABORT"}
    THEN [t \in (DOMAIN active) \ {record.txn_id_} |-> active[t]]
    ELSE [t \in (DOMAIN active) \cup {record.txn_id_} |->
             IF t = record.txn_id_ THEN record.lsn_ ELSE active[t]]

\* std::map operator[] used for reading: a missing key reads as 0
MapAt(m, k) == IF k \in DOMAIN m THEN m[k] ELSE 0

\* the page ids record.insert_rid_.GetPageId() can give in Undo:
\* DeserializeLogRecord assigns insert_rid_ for an INSERT record only, for
\* the other types the member holds what the constructor of LogRecord left
InsertRidPages(record) ==
    IF record.log_record_type_ = "INSERT" THEN {record.rid}
    ELSE TablePageIds \cup {INVALID_PAGE_ID}

\* the id BufferPoolManager::NewPage hands out next after a restart
NewPageId(n) == NumTablePages + n + 1

RecStep ==
    UNCHANGED <<lockVars, logVars, write_set, lruVars, hashVars, treeVars>>

\* normal operation with logging on: transaction t appends a record to the
\* log and, for a tuple operation, changes the page it holds exclusively
LogAppend(t, type, p, v) ==
    LET lsn == Len(LogRecords)
        me == run_txn[t]
        page == IF p \in TablePageIds THEN mem_pages[p] ELSE EmptyTablePage
        free == \A u \in RecTxns \ {t} : p \notin run_txn[u].rids
        old == page.tuple
        changed ==
            CASE type = "INSERT" -> [page EXCEPT !.tuple = v, !.marked = FALSE, !.lsn = lsn]
              [] type = "UPDATE" -> [page EXCEPT !.tuple = v, !.lsn = lsn]
              [] type = "APPLYDELETE" -> [page EXCEPT !.tuple = 0, !.marked = FALSE, !.lsn = lsn]
              [] type = "MARKDELETE" -> [page EXCEPT !.marked = TRUE, !.lsn = lsn]
              [] type = "ROLLBACKDELETE" -> [page EXCEPT !.marked = FALSE, !.lsn = lsn]
              [] type = "NEWPAGE" ->
                   [page EXCEPT !.next_page_id =
                       NewPageId(Len(SelectSeq(LogRecords, LAMBDA c : c.type = "NEWPAGE")))]
    IN  /\ rpc = "logging"
        /\ lsn < MaxLogRecords
        /\ CASE type = "BEGIN" -> me.status = "none" /\ p = 0 /\ v = 0
             [] type = "COMMIT" ->
                  /\ me.status = "active" /\ p = 0 /\ v = 0
                  /\ \A q \in me.rids : ~mem_pages[q].marked
             [] type = "ABORT" -> me.status = "active" /\ me.clean /\ p = 0 /\ v = 0
             [] type = "NEWPAGE" ->
                  /\ me.status = "active" /\ v = 0
                  /\ p \in TablePageIds \cup {INVALID_PAGE_ID}
                  /\ p \in TablePageIds => page.next_page_id = INVALID_PAGE_ID
             [] type \in TupleOps ->
                  /\ me.status = "active" /\ p \in TablePageIds /\ free
                  /\ CASE type = "INSERT" -> old = 0 /\ v \in Tuples
                       [] type = "UPDATE" -> old # 0 /\ ~page.marked /\ v \in Tuples \ {old}
                       [] type = "MARKDELETE" -> old # 0 /\ ~page.marked /\ v = 0
                       [] OTHER -> old # 0 /\ page.marked /\ p \in me.rids /\ v = 0
        /\ disk_log' = disk_log \o Cells(lsn, t, me.prev_lsn, type, p, old, v)
        /\ run_txn' = [run_txn EXCEPT ![t] =
               [status |-> IF type \in {"COMMIT", "ABORT"} THEN "ended" ELSE "active",
                prev_lsn |-> lsn,
                clean |-> me.clean /\ type \in HeaderOnly,
                rids |-> IF type \in {"COMMIT", "ABORT"} THEN {}
                         ELSE IF type \in TupleOps THEN me.rids \cup {p}
                         ELSE me.rids]]
        /\ mem_pages' = IF p \in TablePageIds
                        THEN [mem_pages EXCEPT ![p] = changed] ELSE mem_pages
        /\ UNCHANGED <<table_pages, new_pages, active_txn_, lsn_mapping_,
                       rec_offset_, rec_buffer_, read_offset, next_offset,
                       undo_left, rpc, redone, straddled, passes, once>>
        /\ RecStep

\* normal operation: the buffer pool writes table page p back; the log is
\* forced first, so the file holds every record described here
FlushPage(p) ==
    /\ rpc = "logging"
    /\ table_pages[p] # mem_pages[p]
    /\ table_pages' = [table_pages EXCEPT ![p] = mem_pages[p]]
    /\ UNCHANGED <<disk_log, run_txn, mem_pages, new_pages, active_txn_,
                   lsn_mapping_, rec_offset_, rec_buffer_, read_offset,
                   next_offset, undo_left, rpc, redone, straddled, passes,
                   once>>
    /\ RecStep

\* LogRecovery::Redo is called: after a crash and restart, or again after a
\* Redo that returned
RedoStart ==
    /\ rpc \in {"logging", "redo_done"}
    /\ passes < MaxRedoPasses
    /\ new_pages' = IF rpc = "logging" THEN 0 ELSE new_pages
    /\ read_offset' = 0
    /\ active_txn_' = << >>
    /\ lsn_mapping_' = << >>
    /\ redone' = << >>
    /\ straddled' = FALSE
    /\ rpc' = "redo_read"
    /\ UNCHANGED <<disk_log, run_txn, mem_pages, table_pages, rec_offset_,
                   rec_buffer_, next_offset, undo_left, passes, once>>
    /\ RecStep

\* the test of the outer loop of Redo: ReadLog fills log_buffer_, or Redo
\* returns
RedoReadLog ==
    /\ rpc = "redo_read"
    /\ IF ReadLog(read_offset).ok
       THEN /\ rec_buffer_' = ReadLog(read_offset).data
            /\ rec_offset_' = 0
            /\ rpc' = "redo_parse"
            /\ UNCHANGED <<passes, once>>
       ELSE /\ rpc' = "redo_done"
            /\ passes' = passes + 1
            /\ once' = IF passes = 0
                       THEN [pages |-> table_pages, new |-> new_pages]
                       ELSE once
            /\ UNCHANGED <<rec_buffer_, rec_offset_>>
    /\ UNCHANGED <<disk_log, run_txn, mem_pages, table_pages, new_pages,
                   active_txn_, lsn_mapping_, read_offset, next_offset,
                   undo_left, redone, straddled>>
    /\ RecStep

\* one turn of the inner loop of Redo
RedoRecord ==
    LET record == DeserializeLogRecord(rec_buffer_, rec_offset_)
        t == record.log_record_type_
        new_page_id == NewPageId(new_pages)
        prev == record.prev_page_id_
        wired == prev \in TablePageIds
                 /\ table_pages[prev].next_page_id # INVALID_PAGE_ID
    IN  /\ rpc = "redo_parse"
        /\ IF ~record.ok
           THEN /\ rpc' = "redo_read"
                /\ straddled' = (straddled \/ record.cut)
                /\ UNCHANGED <<table_pages, new_pages, active_txn_,
                               lsn_mapping_, rec_offset_, read_offset, redone>>
           ELSE /\ active_txn_' = UpdateActiveTxn(active_txn_, record)
                /\ table_pages' =
                     IF t \in TupleOps /\ record.rid \in TablePageIds
                     THEN [table_pages EXCEPT ![record.rid] = RedoApply(@, record)]
                     ELSE IF t = "NEWPAGE" /\ prev \in TablePageIds /\ ~wired
                     THEN [table_pages EXCEPT ![prev].next_page_id = new_page_id]
                     ELSE table_pages
                /\ new_pages' = IF t = "NEWPAGE" THEN new_pages + 1 ELSE new_pages
                \* assert(new_page_id == prev_page->GetNextPageId())
                /\ rpc' = IF t = "NEWPAGE" /\ wired
                             /\ new_page_id # table_pages[prev].next_page_id
                          THEN "redo_failed" ELSE "redo_parse"
                /\ lsn_mapping_' =
                     [l \in (DOMAIN lsn_mapping_) \cup {record.lsn_} |->
                         IF l = record.lsn_ THEN read_offset ELSE lsn_mapping_[l]]
                /\ read_offset' = read_offset + record.size_
                /\ rec_offset_' = rec_offset_ + record.size_
                /\ redone' = Append(redone, record.lsn_)
                /\ UNCHANGED straddled
        /\ UNCHANGED <<disk_log, run_txn, mem_pages, rec_buffer_, next_offset,
                       undo_left, passes, once>>
        /\ RecStep

\* LogRecovery::Undo is called after Redo returned
UndoStart ==
    /\ rpc = "redo_done"
    /\ rec_offset_' = 0
    /\ undo_left' = DOMAIN active_txn_
    /\ rpc' = "undo_entry"
    /\ UNCHANGED <<disk_log, run_txn, mem_pages, table_pages, new_pages,
                   active_txn_, lsn_mapping_, rec_buffer_, read_offset,
                   next_offset, redone, straddled, passes, once>>
    /\ RecStep

\* the for loop of Undo takes the next entry of active_txn_, in the order
\* the map gives, or ends and Undo clears both maps
UndoEntry ==
    /\ rpc = "undo_entry"
    /\ IF undo_left = {}
       THEN /\ active_txn_' = << >>
            /\ lsn_mapping_' = << >>
            /\ rpc' = "undone"
            /\ UNCHANGED <<next_offset, undo_left>>
       ELSE \E t \in undo_left :
                /\ next_offset' = MapAt(lsn_mapping_, active_txn_[t])
                /\ undo_left' = undo_left \ {t}
                /\ rpc' = "undo_read"
                /\ UNCHANGED <<active_txn_, lsn_mapping_>>
    /\ UNCHANGED <<disk_log, run_txn, mem_pages, table_pages, new_pages,
                   rec_offset_, rec_buffer_, read_offset, redone, straddled,
                   passes, once>>
    /\ RecStep

\* one turn of the while loop of Undo
UndoRecord ==
    LET data == ReadLog(next_offset).data
        record == DeserializeLogRecord(data, rec_offset_)
    IN  /\ rpc = "undo_read"
        /\ IF ~ReadLog(next_offset).ok
           THEN /\ rpc' = "undo_entry"
                /\ UNCHANGED <<rec_buffer_, table_pages, next_offset>>
           ELSE /\ rec_buffer_' = data
                /\ IF ~record.ok
                   THEN \* assert(DeserializeLogRecord(log_buffer_, record))
                        /\ rpc' = "undo_failed"
                        /\ UNCHANGED <<table_pages, next_offset>>
                   ELSE IF record.log_record_type_ = "BEGIN"
                   THEN /\ rpc' = "undo_entry"
                        /\ UNCHANGED <<table_pages, next_offset>>
                   ELSE IF record.log_record_type_ \notin TupleOps
                   THEN \* throw Exception("unexpected log record type")
                        /\ rpc' = "undo_failed"
                        /\ UNCHANGED <<table_pages, next_offset>>
                   ELSE \E page_id \in InsertRidPages(record) :
                        /\ table_pages' =
                             IF page_id \in TablePageIds
                             THEN [table_pages EXCEPT ![page_id] = UndoApply(@, record)]
                             ELSE table_pages
                        /\ next_offset' = MapAt(lsn_mapping_, record.prev_lsn_)
                        /\ rpc' = "undo_read"
        /\ UNCHANGED <<disk_log, run_txn, mem_pages, new_pages, active_txn_,
                       lsn_mapping_, rec_offset_, read_offset, undo_left,
                       redone, straddled, passes, once>>
        /\ RecStep

InitRecovery ==
    /\ strict_2PL = FALSE
    /\ budget = 0
    /\ LockIdle
    /\ LogInit

NextRecovery ==
    \/ \E t \in RecTxns, type \in HeaderOnly \cup TupleOps \cup {"NEWPAGE"},
          p \in TablePageIds \cup {0, INVALID_PAGE_ID}, v \in Tuples \cup {0} :
          LogAppend(t, type, p, v)
    \/ \E p \in TablePageIds : FlushPage(p)
    \/ RedoStart
    \/ RedoReadLog
    \/ RedoRecord
    \/ UndoStart
    \/ UndoEntry
    \/ UndoRecord

SpecRecovery == InitRecovery /\ [][NextRecovery]_vars

----------------------------------------------------------------------------
(* Redo over a log file whose last write was torn by the crash: the file   *)
(* grew, the bytes of the record did not reach it.  Redo runs to its end   *)
(* whenever it can take a step.                                            *)

\* what the size field of a header that was never written can read as: zero,
\* or a number no record has
TornSizes == {0, LOG_BUFFER_SIZE + 1}

\* the file has a cell that is neither a header nor the payload of a record
Torn == \E i \in DOMAIN disk_log :
            disk_log[i].type = "INVALID" /\ disk_log[i].rid = 0

\* the crash tears the last write of the log file
TornWrite(size) ==
    /\ rpc = "logging"
    /\ ~Torn
    /\ disk_log' = Append(disk_log, [ZeroCell EXCEPT !.size = size])
    /\ UNCHANGED <<run_txn, mem_pages, table_pages, new_pages, active_txn_,
                   lsn_mapping_, rec_offset_, rec_buffer_, read_offset,
                   next_offset, undo_left, rpc, redone, straddled, passes,
                   once>>
    /\ RecStep

NextRedo ==
    \/ \E t \in RecTxns, type \in HeaderOnly \cup TupleOps \cup {"NEWPAGE"},
          p \in TablePageIds \cup {0, INVALID_PAGE_ID}, v \in Tuples \cup {0} :
          ~Torn /\ LogAppend(t, type, p, v)
    \/ \E size \in TornSizes : TornWrite(size)
    \/ RedoStart
    \/ RedoReadLog
    \/ RedoRecord

SpecRedo ==
    /\ InitRecovery
    /\ [][NextRedo]_vars
    /\ WF_vars(RedoReadLog)
    /\ WF_vars(RedoRecord)

----------------------------------------------------------------------------
(* Requesters of one rid whose holders all release it: the lock calls of   *)
(* the threads are capped, the Unlock of a holder is not, and a thread     *)
(* that was notified, like a holder that is to unlock, gets to run.        *)

WakeRid == SetBegin(Rids)

\* Unlock(t, r) called by a holder of r
HolderUnlock(t, r) ==
    /\ pc[t] = "idle"
    /\ lpc[t] = "idle"
    /\ r \in DOMAIN lock_table
    /\ t \in lock_table[r].granted_set_
    /\ UnlockBody(t, r)
    /\ pc' = [u \in Txns |-> IF u \in Notified(t, r) THEN "woken" ELSE pc[u]]
    /\ Returns(t, "Unlock", r, UnlockCase(t, r) = "ok")
    /\ UNCHANGED <<strict_2PL, call, pending, budget, nonLockVars>>

InitWake ==
    /\ Init
    /\ strict_2PL = FALSE

NextWake ==
    \/ \E t \in Txns : LockShared(t, WakeRid)
    \/ \E t \in Txns : LockSharedWake(t)
    \/ \E t \in Txns : LockExclusive(t, WakeRid)
    \/ \E t \in Txns : LockExclusiveWake(t)
    \/ \E t \in Txns : LockUpgrade(t, WakeRid)
    \/ \E t \in Txns : LockUpgradeWake(t)
    \/ \E t \in Txns : SpuriousWakeup(t)
    \/ \E t \in Txns : HolderUnlock(t, WakeRid)

SpecWake ==
    /\ InitWake
    /\ [][NextWake]_vars
    /\ \A t \in Txns :
          /\ WF_vars(LockSharedWake(t))
          /\ WF_vars(LockExclusiveWake(t))
          /\ WF_vars(LockUpgradeWake(t))
          /\ WF_vars(HolderUnlock(t, WakeRid))

----------------------------------------------------------------------------
(* ForceLogFlushAndWait against the flush thread: every thread that can    *)
(* take a step eventually takes it.                                        *)

NextForce ==
    \/ RunFlushThread
    \/ FlushLoop
    \/ FlushLock
    \/ FlushWake
    \/ FlushWrite
    \/ FlushDone
    \/ \E t \in Txns, size \in RecSizes : AppendLogRecord(t, size)
    \/ \E t \in Txns : AppendTry(t)
    \/ \E t \in Txns : AppendFuture(t)
    \/ \E t \in Txns : AppendWait(t)
    \/ \E t \in Txns : ForceLogFlushAndWait(t)
    \/ \E t \in Txns : ForceLock(t)

SpecForce ==
    /\ InitLog
    /\ [][NextForce]_vars
    /\ WF_vars(FlushLoop)
    /\ WF_vars(FlushLock)
    /\ WF_vars(FlushWake)
    /\ WF_vars(FlushWrite)
    /\ WF_vars(FlushDone)
    /\ \A t \in Txns :
          /\ WF_vars(ForceLock(t))
          /\ WF_vars(AppendTry(t))
          /\ WF_vars(AppendFuture(t))
          /\ WF_vars(AppendWait(t))

----------------------------------------------------------------------------
(* Observations of the log manager *)

RECURSIVE Bytes(_)
\* the byte stream of a sequence of records: each record is size bytes of
\* its lsn
Bytes(recs) ==
    IF recs = << >> THEN << >>
    ELSE Bytes(SubSeq(recs, 1, Len(recs) - 1))
         \o [i \in 1 .. recs[Len(recs)].size |-> recs[Len(recs)].lsn]

\* the lsns found in the log file
InFile == {log_file[i] : i \in 1 .. Len(log_file)}

\* every record with an lsn up to m has been handed to WriteLog
Written(m) == \A i \in 1 .. Len(lsns) : lsns[i].lsn <= m => lsns[i].lsn \in InFile

\* the flush thread exists and has not left its loop
FlushThreadRuns == fpc \notin {"none", "exited"}

\* the bytes WriteLog is about to write, and those in the active buffer
InFlight == IF fpc = "write" THEN SubSeq(buf[flush_buffer_], 1, f_flush_size)
            ELSE << >>
Active == SubSeq(buf[log_buffer_], 1, offset_)

----------------------------------------------------------------------------
\* C11: the LSNs AppendLogRecord returns, in the order they are assigned,
\* are 0, 1, 2, ...: contiguous, strictly increasing, none twice, none
\* skipped, whatever the appenders and the flush thread do.
C11_LsnsContiguous == \A i \in 1 .. Len(lsns) : lsns[i].lsn = i - 1

\* three appends went through while the flush thread was writing a buffer
C11_Witness ==
    /\ Len(lsns) = 3
    /\ fpc = "write"
    /\ f_flush_size > 0
    /\ offset_ > 0

----------------------------------------------------------------------------
\* C12: with logging on, no step of Commit(txn) releases one of txn's locks
\* before persistent_lsn has reached the LSN of txn's COMMIT record and the
\* record is in the log file.
C12_NoReleaseBeforeForce ==
    [][\A t \in Txns :
          ( /\ ENABLE_LOGGING
            /\ pc[t] \in {"commit_apply", "commit_log", "commit"}
            /\ LockSet(t)' # LockSet(t) )
          => /\ clsn[t] # INVALID_LSN
             /\ persistent_lsn_ >= clsn[t]
             /\ clsn[t] \in InFile]_vars

----------------------------------------------------------------------------
\* C13: persistent_lsn never decreases, and every record with an LSN up to
\* persistent_lsn has been handed to WriteLog: none of them is only in the
\* active buffer.
C13_PersistentIsWritten ==
    /\ [](Written(persistent_lsn_))
    /\ [][persistent_lsn_' >= persistent_lsn_]_vars

\* two records are persistent and a third is only in the active buffer
C13_Witness ==
    /\ persistent_lsn_ = 1
    /\ Len(lsns) = 3
    /\ offset_ > 0
    /\ 2 \notin InFile

----------------------------------------------------------------------------
\* C14: the log file, then the bytes being written, then the active buffer
\* are exactly the appended records in LSN order, each once and whole; and
\* no step changes the flush buffer while WriteLog is writing it.
C14_LogFileIsTheRecords ==
    /\ [](log_file \o InFlight \o Active = Bytes(lsns))
    /\ [][fpc = "write" => buf'[flush_buffer_] = buf[flush_buffer_]]_vars

\* a second buffer is being written while an appender has put a record in
\* the active buffer
C14_Witness ==
    /\ Len(log_file) > 0
    /\ fpc = "write"
    /\ f_flush_size > 0
    /\ offset_ > 0

----------------------------------------------------------------------------
\* C15: when ForceLogFlushAndWait returns while the flush thread runs, every
\* record appended before the call is in the log file and persistent_lsn is
\* at least the largest LSN assigned before the call.
C15_ForceFlushes ==
    [][\A t \in Txns :
          ( /\ lpc[t] \in {"force", "force_wait"}
            /\ lpc'[t] = "idle"
            /\ FlushThreadRuns )
          => /\ persistent_lsn_' >= mark[t]
             /\ Written(mark[t])']_vars

----------------------------------------------------------------------------
\* C16: when StopFlushThread returns after joining the flush thread, every
\* record appended before the call is in the log file.
C16_StopDrains ==
    [][\A t \in Txns :
          ( /\ lpc[t] = "join"
            /\ lpc'[t] = "idle"
            /\ fpc = "exited" )
          => Written(mark[t])']_vars

----------------------------------------------------------------------------
\* a replacer call has just returned
LruCallStep(op) == lru_last'.seq # lru_last.seq /\ lru_last'.op = op

\* C17: Victim returns and removes the value whose most recent Insert is the
\* oldest among the values present, and returns false and changes nothing
\* on an empty replacer; Insert(v) leaves v once, at the most recent end,
\* with Size unchanged when v was present.
C17_VictimIsLeastRecent ==
    [][/\ LruCallStep("Victim") =>
            IF lru_model = << >>
            THEN ~lru_last'.res /\ access_list' = access_list
            ELSE /\ lru_last'.res
                 /\ lru_last'.value = lru_model[Len(lru_model)]
                 /\ ListVals' = lru_model'
       /\ LruCallStep("Insert") =>
            /\ ~lru_crashed'
            /\ ListVals' = lru_model'
            /\ Len(access_list') = Len(access_list) +
                   (IF \E i \in 1 .. Len(access_list) :
                          access_list[i].val = lru_last'.value
                    THEN 0 ELSE 1)]_vars

----------------------------------------------------------------------------
\* C18: Erase(v) returns true exactly when v is in the replacer, and then
\* removes v and only v, keeping the order of the others; when v is absent
\* it returns false and changes nothing.
C18_EraseRemovesOnlyV ==
    [][LruCallStep("Erase") =>
          LET v == lru_last'.value
              present == \E i \in 1 .. Len(access_list) : access_list[i].val = v
          IN /\ ~lru_crashed'
             /\ lru_last'.res = present
             /\ ListVals' = RemoveVal(ListVals, v)
             /\ Len(access_list') = Len(access_list) - (IF present THEN 1 ELSE 0)]_vars

----------------------------------------------------------------------------
\* a hash table call has just returned
HashCallStep(op) == hash_last'.seq # hash_last.seq /\ hash_last'.op = op

\* the places where key k is stored
Entries(k) ==
    {<<b, i>> \in (DOMAIN buckets) \X (1 .. BUCKET_SIZE) :
        i <= Len(buckets[b].slots) /\ buckets[b].slots[i][1] = k}

\* C19: the hash table is the map that the Insert and Remove calls made:
\* Find(k) succeeds with the value of the latest Insert(k) exactly when k was
\* inserted and not removed since, a key is stored at most once, and Remove(k)
\* returns true exactly when k was there, through splits and directory
\* doublings.
C19_RefinesMap ==
    /\ [](\A k \in HashKeys :
            /\ FindResult(k).res = (k \in DOMAIN hash_model)
            /\ FindResult(k).res => FindResult(k).value = hash_model[k]
            /\ Cardinality(Entries(k)) <= 1)
    /\ [][/\ HashCallStep("Remove") =>
               hash_last'.res = (hash_last'.key \in DOMAIN hash_model)
          /\ HashCallStep("Find") =>
               /\ hash_last'.res = (hash_last'.key \in DOMAIN hash_model)
               /\ hash_last'.res =>
                      hash_last'.value = hash_model[hash_last'.key]]_vars

\* after two directory doublings, with a bucket shared by two slots and a
\* key removed, a Find has succeeded
C19_Witness ==
    /\ global_depth = 2
    /\ \E b \in DOMAIN buckets : buckets[b].local_depth < global_depth
    /\ Cardinality(DOMAIN hash_model) = 3
    /\ hash_last.op = "Find"
    /\ hash_last.res

\* C20: after every sequence of Insert and Remove calls, a call Insert(k, v)
\* on a tree that does not contain k returns true and GetValue(k) then
\* returns v; a call Insert(k, v) on a tree that contains k returns false and
\* leaves what GetValue returns for every key as it was; GetValue on an empty
\* tree returns false
C20_InsertThenGetValue ==
    /\ IsEmpty(Tree) => \A k \in TreeKeys : ~GetValue(Tree, k)[1]
    /\ \A k \in TreeKeys, v \in TreeVals :
          LET r == Insert(Tree, k, v)
          IN  IF tree_model[k] = 0
              THEN /\ r.ret
                   /\ GetValue(r.tree, k) = <<TRUE, v>>
              ELSE /\ ~r.ret
                   /\ \A k2 \in TreeKeys :
                          GetValue(r.tree, k2) = GetValue(Tree, k2)

\* C21: after every sequence of Insert and Remove calls, a call Remove(k) of
\* a stored key leaves GetValue(k) false and GetValue of every other stored
\* key returning its value, whatever coalescing or redistribution it causes;
\* Remove of a key that is not stored, or on an empty tree, changes nothing
C21_RemoveThenGetValue ==
    \A k \in TreeKeys :
        \A junk \in IF Remove(Tree, k, NoJunk).foreign THEN Junks ELSE {NoJunk} :
            LET T == Remove(Tree, k, junk).tree
            IN  IF tree_model[k] = 0
                THEN T = Tree
                ELSE /\ ~GetValue(T, k)[1]
                     /\ \A k2 \in TreeKeys \ {k} :
                            tree_model[k2] # 0 =>
                                GetValue(T, k2) = <<TRUE, tree_model[k2]>>

RECURSIVE FindLeftMostFrom(_, _)
FindLeftMostFrom(ps, page_id) ==
    IF ps[page_id].page_type = "LEAF_PAGE"
    THEN page_id
    ELSE FindLeftMostFrom(ps, ps[page_id].array[1].second)

\* BPlusTree::FindLeafPage with leftMost = true
FindLeftMostLeaf(T) == FindLeftMostFrom(T.pages, T.root_page_id_)

\* the leaves met by following next_page_id_ from page_id, at most fuel of them
RECURSIVE ChainFrom(_, _, _)
ChainFrom(ps, page_id, fuel) ==
    IF page_id = INVALID_PAGE_ID \/ page_id \notin DOMAIN ps \/ fuel = 0
    THEN << >>
    ELSE <<page_id>> \o ChainFrom(ps, ps[page_id].next_page_id_, fuel - 1)

\* the leaf chain of the tree, from the leftmost leaf
LeafChain(T) ==
    IF IsEmpty(T) THEN << >>
    ELSE ChainFrom(T.pages, FindLeftMostLeaf(T), MaxPageId + 1)

\* the leaves under page_id, children taken from slot 0 upwards
RECURSIVE LeavesUnder(_, _)
RECURSIVE LeavesOf(_, _, _)
LeavesOf(ps, array, i) ==
    IF i > Len(array) THEN << >>
    ELSE LeavesUnder(ps, array[i].second) \o LeavesOf(ps, array, i + 1)

LeavesUnder(ps, page_id) ==
    IF ps[page_id].page_type = "LEAF_PAGE"
    THEN <<page_id>>
    ELSE LeavesOf(ps, ps[page_id].array, 1)

\* the leaves of the tree in the order of an in-order traversal
InOrderLeaves(T) ==
    IF IsEmpty(T) THEN << >> ELSE LeavesUnder(T.pages, T.root_page_id_)

\* the entries of a sequence of leaves, concatenated
RECURSIVE EntriesOf(_, _)
EntriesOf(ps, leaves) ==
    IF leaves = << >> THEN << >>
    ELSE ps[Head(leaves)].array \o EntriesOf(ps, Tail(leaves))

\* C22: after every sequence of Insert and Remove calls the chain of
\* next_page_id_ from the leftmost leaf is the leaves of the tree in
\* in-order, each once, and its keys are strictly increasing and are exactly
\* the keys stored
C22_LeafChainSorted ==
    LET chain == LeafChain(Tree)
        entries == EntriesOf(pages, chain)
    IN  /\ chain = InOrderLeaves(Tree)
        /\ \A i \in 1 .. (Len(entries) - 1) :
              entries[i].first < entries[i + 1].first
        /\ {entries[i].first : i \in 1 .. Len(entries)}
              = {k \in TreeKeys : tree_model[k] # 0}

----------------------------------------------------------------------------
(* IndexIterator.  An iterator is [offset_, curr_page_]; curr_page_ names   *)
(* the leaf by its page id.                                                 *)

\* BPlusTree::Begin() and Begin(key) return INDEXITERATOR_TYPE(): no leaf is
\* looked up and neither member is given a value, so the iterator may hold
\* any offset and name any page or none
Begin(T) ==
    [offset_ : 0 .. LEAF_MAX_SIZE,
     curr_page_ : (DOMAIN T.pages) \cup {INVALID_PAGE_ID}]

\* IndexIterator::isEnd
isEnd(ps, it) ==
    /\ ps[it.curr_page_].next_page_id_ = INVALID_PAGE_ID
    /\ it.offset_ >= Len(ps[it.curr_page_].array)

\* IndexIterator::operator++
Advance(ps, it) ==
    IF it.offset_ + 1 >= Len(ps[it.curr_page_].array)
    THEN IF ps[it.curr_page_].next_page_id_ = INVALID_PAGE_ID
         THEN [it EXCEPT !.offset_ = @ + 1]
         ELSE [offset_ |-> 0, curr_page_ |-> ps[it.curr_page_].next_page_id_]
    ELSE [it EXCEPT !.offset_ = @ + 1]

\* what a loop for (it; !it.isEnd(); ++it) reads through operator*, and
\* whether every one of its steps was defined: the iterator names a leaf
\* and GetItem is given an offset below the size
RECURSIVE Scan(_, _, _)
Scan(ps, it, fuel) ==
    IF \/ it.curr_page_ \notin DOMAIN ps
       \/ ps[it.curr_page_].page_type # "LEAF_PAGE"
       \/ fuel = 0
    THEN [items |-> << >>, defined |-> FALSE]
    ELSE IF isEnd(ps, it)
    THEN [items |-> << >>, defined |-> TRUE]
    ELSE IF it.offset_ >= Len(ps[it.curr_page_].array)
    THEN [items |-> << >>, defined |-> FALSE]
    ELSE LET rest == Scan(ps, Advance(ps, it), fuel - 1)
         IN  [items |-> <<ps[it.curr_page_].array[it.offset_ + 1]>> \o rest.items,
              defined |-> rest.defined]

\* the entries of a sequence whose key is at least key
RECURSIVE From(_, _)
From(entries, key) ==
    IF entries = << >> THEN << >>
    ELSE IF Head(entries).first >= key THEN entries
    ELSE From(Tail(entries), key)

\* C23: on a tree that is not empty, the iterator Begin() returns reads
\* every entry of the tree once, in increasing key order, from the leftmost
\* one, the iterator Begin(k) reads those from the first key >= k, and each
\* dereference made while isEnd() is false is valid
C23_IteratorScansInOrder ==
    ~IsEmpty(Tree) =>
        LET entries == EntriesOf(pages, InOrderLeaves(Tree))
            fuel == NumTreeKeys + 1
        IN  /\ \A it \in Begin(Tree) :
                  Scan(pages, it, fuel) = [items |-> entries, defined |-> TRUE]
            /\ \A k \in TreeKeys : \A it \in Begin(Tree) :
                  Scan(pages, it, fuel)
                      = [items |-> From(entries, k), defined |-> TRUE]

----------------------------------------------------------------------------
(* Observations of log recovery *)

\* the transactions with a record in the log, and those of them with a
\* COMMIT or ABORT record
Logged == {LogRecords[i].txn_id : i \in DOMAIN LogRecords}
Ended ==
    {LogRecords[i].txn_id :
        i \in {j \in DOMAIN LogRecords : LogRecords[j].type \in {"COMMIT", "ABORT"}}}

\* the lsn of the last record of transaction t in the log
LastLsnOf(t) ==
    LET mine == SelectSeq(LogRecords, LAMBDA c : c.txn_id = t)
    IN  mine[Len(mine)].lsn

\* tuple and delete mark of every table page
Contents(ps) == [p \in DOMAIN ps |-> <<ps[p].tuple, ps[p].marked>>]

\* the table pages after the tuple records of the transactions in keep, from
\* cell i of the log on, were applied to ps in file order
RECURSIVE Replay(_, _, _)
Replay(ps, i, keep) ==
    IF i > Len(disk_log) THEN ps
    ELSE LET h == disk_log[i]
             record == [lsn_ |-> h.lsn, log_record_type_ |-> h.type,
                        new_tuple_ |-> disk_log[i + 1].new]
         IN  IF h.type \in TupleOps /\ h.txn_id \in keep
             THEN Replay([ps EXCEPT ![disk_log[i + 1].rid] =
                             RedoApply([@ EXCEPT !.lsn = INVALID_LSN], record)],
                         i + h.size, keep)
             ELSE Replay(ps, i + h.size, keep)

\* C24: when Undo has returned after one Redo over the log, tuple and mark
\* of every table page are those that only the records of the transactions
\* with a COMMIT or ABORT record produce, and active_txn_ is empty; Undo
\* does not end in a failed assertion or an exception
C24_RedoUndoKeepsWinners ==
    passes = 1 =>
        /\ rpc # "undo_failed"
        /\ rpc = "undone" =>
              /\ active_txn_ = << >>
              /\ Contents(table_pages)
                   = Contents(Replay([p \in TablePageIds |-> EmptyTablePage], 1, Ended))

\* C25: when Redo has returned, it processed every record of the log once,
\* in file order, and active_txn_ maps exactly the transactions with a
\* record and without COMMIT or ABORT to the lsn of their last record
C25_RedoBuildsActiveTxn ==
    rpc = "redo_done" =>
        /\ redone = [i \in DOMAIN LogRecords |-> LogRecords[i].lsn]
        /\ active_txn_ = [t \in Logged \ Ended |-> LastLsnOf(t)]

\* Redo returned over a log in which a record was cut by the end of the
\* buffer, with a transaction that ended and one that did not
C25_Witness ==
    /\ rpc = "redo_done"
    /\ straddled
    /\ Ended # {}
    /\ DOMAIN active_txn_ # {}
    /\ C25_RedoBuildsActiveTxn

\* C26: a second Redo over the same log trips no assertion, and when it has
\* returned the table pages and the number of pages allocated are what they
\* were when the first returned
C26_RedoTwiceIsRedoOnce ==
    /\ rpc # "redo_failed"
    /\ rpc = "redo_done" /\ passes = 2 =>
          [pages |-> table_pages, new |-> new_pages] = once

----------------------------------------------------------------------------
\* C27: in every state, which is one where no thread is inside a critical
\* section of the lock manager, each rid in the lock table has a holder, and
\* an EXCLUSIVE entry has exactly one; so an entry whose last holder left in
\* Unlock or LockUpgrade was erased or replaced before the mutex was freed
C27_EntriesHaveHolders ==
    \A r \in DOMAIN lock_table :
        /\ lock_table[r].granted_set_ # {}
        /\ lock_table[r].lockType_ = "EXCLUSIVE"
              => Cardinality(lock_table[r].granted_set_) = 1

\* the last shared holder left by LockUpgrade and the entry was replaced,
\* after another holder had left by Unlock
C27_Witness ==
    /\ last.op = "LockUpgrade" /\ last.res = TRUE
    /\ last.rid \in DOMAIN lock_table
    /\ lock_table[last.rid] = GrantedTxns("EXCLUSIVE", last.txn)
    /\ \E u \in Txns \ {last.txn} : unlocked[u]

----------------------------------------------------------------------------
\* C28: on one rid whose holders all unlock, a transaction blocked in
\* LockShared, LockExclusive or LockUpgrade is eventually granted the lock
\* and its call returns true
C28_NoLostWakeup ==
    \A t \in Txns :
        (pc[t] \in {"wait", "woken"})
            ~> ( /\ pc[t] = "idle"
                 /\ WakeRid \in shared_lock_set[t] \cup exclusive_lock_set[t] )

\* the last holder unlocked while two requesters were blocked: the entry is
\* gone and both were notified
C28_Witness ==
    /\ WakeRid \notin DOMAIN lock_table
    /\ Cardinality({t \in Txns : pc[t] = "woken" /\ call[t].rid = WakeRid}) >= 2
    /\ last.op = "Unlock" /\ last.res = TRUE

----------------------------------------------------------------------------
\* C29: from the grant of its shared lock on a rid until its LockUpgrade on
\* that rid returns, which it does only with true once it waits, no other
\* transaction holds an exclusive lock on the rid
C29_UpgradeNotOvertaken ==
    \A t \in Txns : \A r \in Rids :
        ( \/ r \in shared_lock_set[t]
          \/ /\ pc[t] \in {"wait", "woken"}
             /\ call[t] = [op |-> "LockUpgrade", rid |-> r] )
        => \A u \in Txns \ {t} : ~HoldsExclusive(u, r)

----------------------------------------------------------------------------
\* C30: a thread inside ForceLogFlushAndWait eventually returns from it
C30_ForceReturns ==
    \A t \in Txns : (lpc[t] \in {"force", "force_wait"}) ~> (lpc[t] = "idle")

----------------------------------------------------------------------------
(* Observations of the shape of the B+ tree.                                *)

\* the keys stored in the leaves under page_id
KeysUnder(ps, page_id) ==
    LET entries == EntriesOf(ps, LeavesUnder(ps, page_id))
    IN  {entries[i].first : i \in 1 .. Len(entries)}

\* C31: after every sequence of Insert and Remove calls, in every internal
\* page and for every slot i >= 1, every key under child i is at least
\* key[i] and every key under child i - 1 is less than key[i]
C31_SeparatorsBound ==
    \A p \in DOMAIN pages :
        pages[p].page_type = "INTERNAL_PAGE" =>
            \A i \in 2 .. Len(pages[p].array) :
                LET array == pages[p].array
                IN  /\ \A k \in KeysUnder(pages, array[i].second) :
                          k >= array[i].first
                    /\ \A k \in KeysUnder(pages, array[i - 1].second) :
                          k < array[i].first

\* C32: after every completed Insert or Remove every page other than the
\* root holds at least GetMinSize() and at most GetMaxSize() entries
C32_SizesWithinBounds ==
    \A p \in DOMAIN pages \ {root_page_id_} :
        /\ GetMinSize(pages[p]) <= Len(pages[p].array)
        /\ Len(pages[p].array) <= GetMaxSize(pages[p])

\* a Remove has coalesced two leaves, then two internal pages, and replaced
\* the root by the page they were merged into: of the pages allocated three
\* are gone and the root, over leaves only, is full
C32_Witness ==
    /\ ~IsEmpty(Tree)
    /\ pages[root_page_id_].page_type = "INTERNAL_PAGE"
    /\ Len(pages[root_page_id_].array) = INTERNAL_MAX_SIZE
    /\ \A c \in Children(pages[root_page_id_].array) :
          pages[c].page_type = "LEAF_PAGE"
    /\ next_page_id - 1 - Cardinality(DOMAIN pages) >= 3
    /\ C32_SizesWithinBounds

\* C33: after every completed Insert or Remove the root has no parent, the
\* parent_page_id_ of every other page names an internal page that lists
\* the page, and every child an internal page lists names that page as its
\* parent
C33_ParentPointers ==
    /\ ~IsEmpty(Tree) => IsRootPage(pages[root_page_id_])
    /\ \A p \in DOMAIN pages \ {root_page_id_} :
          LET parent == pages[p].parent_page_id_
          IN  /\ parent \in DOMAIN pages
              /\ pages[parent].page_type = "INTERNAL_PAGE"
              /\ ValueIndex(pages[parent].array, p) >= 0
    /\ \A p \in DOMAIN pages :
          pages[p].page_type = "INTERNAL_PAGE" =>
              \A c \in Children(pages[p].array) :
                  /\ c \in DOMAIN pages
                  /\ pages[c].parent_page_id_ = p

\* a tree of three levels, whose second internal page took its children in
\* a split, after a Remove that deleted a page
C33_Witness ==
    /\ ~IsEmpty(Tree)
    /\ pages[root_page_id_].page_type = "INTERNAL_PAGE"
    /\ \A c \in Children(pages[root_page_id_].array) :
          pages[c].page_type = "INTERNAL_PAGE"
    /\ next_page_id - 1 > Cardinality(DOMAIN pages)
    /\ C33_ParentPointers

\* C34: when every key inserted has been removed the tree is empty; the
\* root of a tree that is not empty has no parent, holds a key when it is a
\* leaf and has at least two children when it is an internal page
C34_RootAdjusted ==
    /\ (\A k \in TreeKeys : tree_model[k] = 0) => IsEmpty(Tree)
    /\ ~IsEmpty(Tree) =>
          /\ root_page_id_ \in DOMAIN pages
          /\ IsRootPage(pages[root_page_id_])
          /\ Len(pages[root_page_id_].array)
                >= (IF pages[root_page_id_].page_type = "LEAF_PAGE"
                    THEN 1 ELSE 2)

\* C35: a Remove that leaves a leaf other than the root under GetMinSize()
\* uses the sibling at node_index - 1, or at 1 for node_index 0; when the
\* entries of the two fit in one page they are merged into the left page
\* and the right page is deleted, and otherwise the leaf takes exactly one
\* entry of the sibling
C35_CoalesceWhenFits ==
    \A k \in TreeKeys :
        ~IsEmpty(Tree) =>
            LET leaf_page == FindLeafPage(Tree, k)
                node == pages[leaf_page]
                array == RemoveAndDeleteRecord(node.array, k)
            IN  ( /\ Len(array) # Len(node.array)
                  /\ Len(array) < GetMinSize(node)
                  /\ ~IsRootPage(node) ) =>
                LET parent_node == pages[node.parent_page_id_]
                    node_index == ValueIndex(parent_node.array, leaf_page)
                    sibling_index == IF node_index = 0 THEN 1
                                     ELSE node_index - 1
                    sibling_page_id ==
                        parent_node.array[sibling_index + 1].second
                    sibling == pages[sibling_page_id].array
                    left == IF node_index = 0 THEN leaf_page
                            ELSE sibling_page_id
                    right == IF node_index = 0 THEN sibling_page_id
                             ELSE leaf_page
                    T == Remove(Tree, k, NoJunk).tree
                IN  IF Len(sibling) + Len(array) <= GetMaxSize(node)
                    THEN /\ right \notin DOMAIN T.pages
                         /\ left \in DOMAIN T.pages
                         /\ T.pages[left].array
                               = (IF node_index = 0 THEN array \o sibling
                                  ELSE sibling \o array)
                    ELSE /\ {leaf_page, sibling_page_id} \subseteq DOMAIN T.pages
                         /\ Len(T.pages[leaf_page].array) = Len(array) + 1
                         /\ Len(T.pages[sibling_page_id].array)
                               = Len(sibling) - 1

----------------------------------------------------------------------------
\* C36: when GetValue, Insert or Remove has returned no page is pinned:
\* every page the call fetched or created was unpinned once for each pin
C36_NoPinLeft ==
    \A p \in DOMAIN pin_count : pin_count[p] = 0

-----------------------------------------------------------------------------
\* Observations of the passes of recovery over single records

\* C37: in the undo pass, for every loser record of type INSERT, UPDATE,
\* APPLYDELETE, MARKDELETE or ROLLBACKDELETE the page that is fetched and
\* modified is the page named by that record's own RID: the turn of the loop
\* changes the table pages exactly as the inverse call on that page does.
C37_UndoOnOwnPage ==
    [][LET data == ReadLog(next_offset).data
           record == DeserializeLogRecord(data, rec_offset_)
       IN  (/\ rpc = "undo_read"
            /\ ReadLog(next_offset).ok
            /\ record.ok
            /\ record.log_record_type_ \in TupleOps)
           => table_pages' =
                  [table_pages EXCEPT ![record.rid] = UndoApply(@, record)]]_vars

\* C38: the redo pass terminates on every log file: a record that cannot be
\* deserialized ends the pass, and Redo does not read the same file offset
\* again and again; once Redo reads the log it returns (or stops at a failed
\* assertion).
C38_RedoTerminates ==
    (rpc = "redo_read") ~> (rpc \in {"redo_done", "redo_failed"})

----------------------------------------------------------------------------
\* C39: after every sequence of Insert, Erase and Victim calls value_map and
\* access_list agree: they hold the same set of values, access_list has no
\* value twice, and for every value the position value_map records is the
\* live node that holds the value, also right after Insert of a value that
\* was present; no call went through an invalidated iterator.
C39_MapAgreesWithList ==
    /\ ~lru_crashed
    /\ DOMAIN value_map = {access_list[i].val : i \in 1 .. Len(access_list)}
    /\ \A i, j \in 1 .. Len(access_list) :
          access_list[i].val = access_list[j].val => i = j
    /\ \A v \in DOMAIN value_map :
          \E i \in 1 .. Len(access_list) :
              access_list[i] = [addr |-> value_map[v], val |-> v]

----------------------------------------------------------------------------
\* the directory slots that reference bucket b
Refs(b) == {i \in DOMAIN directory : directory[i] = b}

\* C40: after every sequence of Insert and Remove calls the directory has
\* exactly 2^global_depth slots; every bucket has local_depth <=
\* global_depth and is referenced by exactly 2^(global_depth - local_depth)
\* slots, which agree on their low local_depth bits; every key stored in a
\* bucket hashes to a slot that references it; no bucket holds more than
\* bucket_size entries; and global_depth never decreases.
C40_DirectoryShape ==
    /\ [](/\ DOMAIN directory = 0 .. (2 ^ global_depth - 1)
          /\ \A b \in DOMAIN buckets :
                LET local_depth == buckets[b].local_depth
                    slots == buckets[b].slots
                IN  /\ local_depth \in 0 .. global_depth
                    /\ Cardinality(Refs(b)) = 2 ^ (global_depth - local_depth)
                    /\ \A i, j \in Refs(b) :
                          i % (2 ^ local_depth) = j % (2 ^ local_depth)
                    /\ \A n \in 1 .. Len(slots) :
                          GetBucketIndex(slots[n][1]) \in Refs(b)
                    /\ Len(slots) <= BUCKET_SIZE)
    /\ [][global_depth' >= global_depth]_vars

\* the directory was doubled twice, a bucket is shared by two slots, another
\* is full, and a Remove has taken a key out
C40_Witness ==
    /\ global_depth = 2
    /\ \E b \in DOMAIN buckets :
          buckets[b].local_depth = 1 /\ Cardinality(Refs(b)) = 2
    /\ \E b \in DOMAIN buckets : Len(buckets[b].slots) = BUCKET_SIZE
    /\ hash_last.op = "Remove"
    /\ hash_last.res

====
